---- MODULE Spec2Model ----
(***************************************************************************)
(* A model of zyle's diagnostic resolution engine.                         *)
(*                                                                         *)
(* Part I   the mapping decoder of SourceMapResolver (decodeVLQ,           *)
(*          decodeMappings, the consumer's originalPositionFor).           *)
(* Part II  the resolver itself: the resolution cache with its LRU         *)
(*          access order, the located-URL table, and resolveStackFrame     *)
(*          as a process that yields at every network await.               *)
(*                                                                         *)
(* Strings the code inspects character by character are sequences of       *)
(* one-character strings; URLs are sequences of tokens (a stem followed by *)
(* its dotted suffixes), so that appending ".map" and replacing /\.js$/    *)
(* are computed, not assumed.                                              *)
(***************************************************************************)
EXTENDS Integers, Sequences, FiniteSets, TLC

\* ------------------------------------------------------------------------
\* Bounds of the model
\* ------------------------------------------------------------------------

\* Resolutions that may be in flight at once.
MaxTasks == 2

\* resolveStackFrame calls over the life of one resolver: against a network
\* that may answer anything (Spec), and against a server that keeps every
\* bundle's map at <url>.map (SpecCache).
MaxStarts == 3

MaxCacheStarts == 5

\* Frames handed to resolveStackFrames over the life of one resolver
\* (SpecBatch).
MaxBatchStarts == 3

\* Capacity of the resolution cache. The source sets 50; the eviction logic
\* reads the capacity only through `size >= MAX_CACHE_SIZE`, and the model
\* runs it at a small capacity.
MAX_CACHE_SIZE == 2

\* Largest magnitude of an integer handed to the VLQ round trip.
MaxVLQ == 17

\* Longest integer sequence handed to the VLQ round trip.
MaxVLQLen == 2

\* Segments per generated line and generated lines of a mapping table.
MaxSegs == 2

MaxLines == 2

\* Largest target column of a position lookup.
MaxColumn == 4

\* ------------------------------------------------------------------------
\* Generic helpers
\* ------------------------------------------------------------------------

Last(s) == s[Len(s)]

Front(s) == SubSeq(s, 1, Len(s) - 1)

SeqsUpTo(S, n) == UNION {[1..k -> S] : k \in 0..n}

RECURSIVE Pow2(_)
Pow2(n) == IF n = 0 THEN 1 ELSE 2 * Pow2(n - 1)

\* ECMAScript ToInt32: the operand of <<, >> and & is taken into the signed
\* 32-bit range. TLC's integers are that range (arithmetic that leaves it
\* is reported as an error, never wrapped), so within it ToInt32 returns
\* its operand.
ToInt32(x) == x

\* x << s on 32-bit integers (the shift count is taken modulo 32).
ShiftLeft(x, s) == ToInt32(ToInt32(x) * Pow2(s % 32))

\* x >> 1 on 32-bit integers: the arithmetic shift rounds towards -infinity.
ShiftRight1(x) ==
  LET v == ToInt32(x)
  IN (v - (v % 2)) \div 2

\* x & (one bit), for the single-bit mask 2^b.
TestBit(x, b) == (ToInt32(x) \div Pow2(b)) % 2 = 1

\* String.prototype.split on a one-character separator: the pieces between
\* the separators, empty pieces included.
RECURSIVE SplitFrom(_, _, _, _)
SplitFrom(s, sep, i, cur) ==
  IF i > Len(s) THEN <<cur>>
  ELSE IF s[i] = sep THEN <<cur>> \o SplitFrom(s, sep, i + 1, <<>>)
  ELSE SplitFrom(s, sep, i + 1, Append(cur, s[i]))

Split(s, sep) == SplitFrom(s, sep, 1, <<>>)

\* Array.prototype.join on pieces that are character sequences.
RECURSIVE Join(_, _)
Join(pieces, sep) ==
  IF pieces = <<>> THEN <<>>
  ELSE IF Len(pieces) = 1 THEN pieces[1]
  ELSE pieces[1] \o <<sep>> \o Join(Tail(pieces), sep)

\* ------------------------------------------------------------------------
\* Part I: the mapping decoder
\* ------------------------------------------------------------------------

\* The base64 alphabet of decodeVLQ; charToInteger[chars[i]] = i, 0-based.
Base64Chars ==
  << "A","B","C","D","E","F","G","H","I","J","K","L","M","N","O","P",
     "Q","R","S","T","U","V","W","X","Y","Z","a","b","c","d","e","f",
     "g","h","i","j","k","l","m","n","o","p","q","r","s","t","u","v",
     "w","x","y","z","0","1","2","3","4","5","6","7","8","9","+","/" >>

\* charToInteger[char], or -1 where the table has no entry (undefined).
CharToInteger(c) ==
  IF \E i \in DOMAIN Base64Chars : Base64Chars[i] = c
  THEN (CHOOSE i \in DOMAIN Base64Chars : Base64Chars[i] = c) - 1
  ELSE -1

\* The constants of decodeVLQ, as the code sets them.
VLQ_BASE == 64

VLQ_BASE_SHIFT == 5

VLQ_BASE_MASK == VLQ_BASE - 1

VLQ_CONTINUATION_BIT == VLQ_BASE

\* integer & VLQ_CONTINUATION_BIT and integer & VLQ_BASE_MASK. Both masks are
\* what the code computes them to be: the single bit 64 and the low six bits.
HasContinuationBit(integer) ==
  (ToInt32(integer) \div VLQ_CONTINUATION_BIT) % 2 = 1

WithoutContinuationBit(integer) == ToInt32(integer) % (VLQ_BASE_MASK + 1)

\* The loop of decodeVLQ from character i on, with the loop's locals.
\* The decoded -0 of JavaScript is the integer 0 here (-0 === 0).
RECURSIVE DecodeVLQFrom(_, _, _, _, _)
DecodeVLQFrom(str, i, shift, value, decoded) ==
  IF i > Len(str) THEN decoded
  ELSE
    LET integer == CharToInteger(str[i])
    IN IF integer = -1 THEN DecodeVLQFrom(str, i + 1, shift, value, decoded)
       ELSE
         LET v == value + ShiftLeft(WithoutContinuationBit(integer), shift)
         IN IF HasContinuationBit(integer)
            THEN DecodeVLQFrom(str, i + 1, shift + VLQ_BASE_SHIFT, v, decoded)
            ELSE
              LET shouldNegate == TestBit(v, 0)
                  half == ShiftRight1(v)
                  out == IF shouldNegate THEN -half ELSE half
              IN DecodeVLQFrom(str, i + 1, 0, 0, Append(decoded, out))

decodeVLQ(str) == DecodeVLQFrom(str, 1, 0, 0, <<>>)

\* The base64 VLQ encoding of section 4.1: the sign goes to the lowest bit,
\* then 5-bit groups, least significant first, each packed into a 6-bit code
\* whose 6th bit (32) says that more groups follow.
RECURSIVE EncodeGroups(_)
EncodeGroups(u) ==
  IF u < 32 THEN <<Base64Chars[u + 1]>>
  ELSE <<Base64Chars[(u % 32) + 32 + 1]>> \o EncodeGroups(u \div 32)

encodeVLQ(n) == EncodeGroups(IF n < 0 THEN 2 * (-n) + 1 ELSE 2 * n)

RECURSIVE encodeVLQSeq(_)
encodeVLQSeq(ns) ==
  IF ns = <<>> THEN <<>> ELSE encodeVLQ(Head(ns)) \o encodeVLQSeq(Tail(ns))

\* A value JavaScript leaves undefined (an array index out of range, a field
\* the object does not have).
Undefined == "<undefined>"

\* The running totals of decodeMappings.
ZeroTotals ==
  [generatedColumn |-> 0, sourceIndex |-> 0, originalLine |-> 0,
   originalColumn |-> 0, nameIndex |-> 0]

\* The body of the segment loop of decodeMappings once the segment is
\* decoded: the totals and the mappings array after it.
DecodedSegment(decoded, lineIndex, st, mappings) ==
  IF Len(decoded) = 0 THEN [st |-> st, mappings |-> mappings]
  ELSE IF Len(decoded) >= 5
  THEN [st |-> [generatedColumn |-> st.generatedColumn + decoded[1],
                sourceIndex |-> st.sourceIndex + decoded[2],
                originalLine |-> st.originalLine + decoded[3],
                originalColumn |-> st.originalColumn + decoded[4],
                nameIndex |-> st.nameIndex + decoded[5]],
        mappings |->
          Append(mappings,
                 [generatedLine |-> lineIndex,
                  generatedColumn |-> st.generatedColumn + decoded[1],
                  sourceIndex |-> st.sourceIndex + decoded[2],
                  originalLine |-> st.originalLine + decoded[3],
                  originalColumn |-> st.originalColumn + decoded[4],
                  nameIndex |-> st.nameIndex + decoded[5]])]
  ELSE IF Len(decoded) >= 4
  THEN [st |-> [st EXCEPT !.generatedColumn = @ + decoded[1],
                          !.sourceIndex = @ + decoded[2],
                          !.originalLine = @ + decoded[3],
                          !.originalColumn = @ + decoded[4]],
        mappings |->
          Append(mappings,
                 [generatedLine |-> lineIndex,
                  generatedColumn |-> st.generatedColumn + decoded[1],
                  sourceIndex |-> st.sourceIndex + decoded[2],
                  originalLine |-> st.originalLine + decoded[3],
                  originalColumn |-> st.originalColumn + decoded[4]])]
  ELSE [st |-> [st EXCEPT !.generatedColumn = @ + decoded[1]],
        mappings |->
          Append(mappings,
                 [generatedLine |-> lineIndex,
                  generatedColumn |-> st.generatedColumn + decoded[1]])]

\* One iteration of the segment loop: an empty segment is skipped.
DecodeSegment(segment, lineIndex, st, mappings) ==
  IF segment = <<>> THEN [st |-> st, mappings |-> mappings]
  ELSE DecodedSegment(decodeVLQ(segment), lineIndex, st, mappings)

RECURSIVE DecodeSegments(_, _, _, _)
DecodeSegments(segments, j, lineIndex, r) ==
  IF j > Len(segments) THEN r
  ELSE DecodeSegments(segments, j + 1, lineIndex,
                      DecodeSegment(segments[j], lineIndex, r.st, r.mappings))

\* A decodeMappings whose generated-column total runs on from line to line.
RECURSIVE DecodeLinesNoReset(_, _, _)
DecodeLinesNoReset(lines, i, r) ==
  IF i > Len(lines) THEN r.mappings
  ELSE IF lines[i] = <<>> THEN DecodeLinesNoReset(lines, i + 1, r)
  ELSE DecodeLinesNoReset(lines, i + 1,
                          DecodeSegments(Split(lines[i], ","), 1, i - 1, r))

\* The line loop of decodeMappings; i is the 1-based place of the line,
\* lineIndex = i - 1. An empty line is skipped before generatedColumn is
\* reset. r holds the running totals and the mappings array.
RECURSIVE DecodeLines(_, _, _)
DecodeLines(lines, i, r) ==
  IF i > Len(lines) THEN r.mappings
  ELSE IF lines[i] = <<>> THEN DecodeLines(lines, i + 1, r)
  ELSE DecodeLines(lines, i + 1,
                   DecodeSegments(Split(lines[i], ","), 1, i - 1,
                                  [r EXCEPT !.st.generatedColumn = 0]))

decodeMappings(mappingsStr) ==
  DecodeLines(Split(mappingsStr, ";"), 1, [st |-> ZeroTotals, mappings |-> <<>>])

\* Whether segment m qualifies for the position (line, column) of
\* originalPositionFor: the predicate handed to Array.prototype.find.
Qualifies(m, line, column) ==
  m.generatedLine = line - 1 /\ m.generatedColumn <= column

\* mappings.find(...): the place of the first qualifying segment, 0 for
\* undefined.
FindMapping(mappings, line, column) ==
  LET hits == {i \in DOMAIN mappings : Qualifies(mappings[i], line, column)}
  IN IF hits = {} THEN 0
     ELSE CHOOSE i \in hits : \A j \in hits : i <= j

\* array[index] of JavaScript for a 0-based index; undef stands for undefined.
ArrayAt(array, index, undef) ==
  IF index + 1 \in DOMAIN array THEN array[index + 1] ELSE undef

\* The consumer's originalPositionFor over the raw source map it closes
\* over. thrown: rawSourceMap.sources or rawSourceMap.names is read while
\* the source map has no such field (a TypeError).
NullPosition ==
  [thrown |-> FALSE, source |-> Undefined, line |-> 0, column |-> 0,
   found |-> FALSE]

\* The position originalPositionFor returns for the segment find returned.
PositionOf(rawSourceMap, mapping) ==
  IF "originalLine" \notin DOMAIN mapping THEN NullPosition
  ELSE IF "sources" \notin DOMAIN rawSourceMap
          \/ ("nameIndex" \in DOMAIN mapping /\ "names" \notin DOMAIN rawSourceMap)
  THEN [NullPosition EXCEPT !.thrown = TRUE]
  ELSE [thrown |-> FALSE,
        source |-> ArrayAt(rawSourceMap.sources, mapping.sourceIndex, Undefined),
        line |-> mapping.originalLine + 1,
        column |-> mapping.originalColumn,
        found |-> TRUE]

PositionAt(rawSourceMap, mappings, at) ==
  IF at = 0 THEN NullPosition ELSE PositionOf(rawSourceMap, mappings[at])

PositionIn(rawSourceMap, mappings, line, column) ==
  PositionAt(rawSourceMap, mappings, FindMapping(mappings, line, column))

originalPositionFor(rawSourceMap, line, column) ==
  PositionIn(rawSourceMap, decodeMappings(rawSourceMap.mappings), line, column)

\* ------------------------------------------------------------------------
\* Part II: the resolver
\* ------------------------------------------------------------------------

VARIABLES
  isEnabled,          \* SourceMapResolver.isEnabled
  sourceMapCache,     \* file URL -> consumer or Null (a Map: a function)
  sourceMapUrls,      \* file URL -> located mapping URL
  cacheAccessOrder,   \* the LRU order, oldest first
  destroyed,          \* ids of the consumers destroy() was called on
  nextId,             \* consumers created so far
  tasks,              \* the resolveStackFrame calls in flight
  started,            \* resolveStackFrame calls so far
  recency,            \* observer: the cached keys by last access, oldest first
  absent,             \* observer: files concluded absent, not evicted or cleared since
  batch               \* the resolveStackFrames call in flight

resolverVars ==
  <<isEnabled, sourceMapCache, sourceMapUrls, cacheAccessOrder, destroyed,
    nextId, tasks, started, recency, absent, batch>>

\* The decoder under test, apart from any resolver: the VLQ round trip and
\* the position lookup.
VARIABLES
  vlqPc,      \* "off", "input", "encoded", "decoded"
  vlqInts,    \* the integer sequence handed to the encoder
  vlqText,    \* its base64 VLQ text
  vlqOut,     \* decodeVLQ of that text
  mapPc,      \* "off", "table", "consumer", "looked"
  mapRaw,     \* the raw source map under test
  mapTable,   \* decodeMappings of its mappings
  mapPos,     \* the position looked up
  mapResult   \* originalPositionFor of that position

decoderVars ==
  <<vlqPc, vlqInts, vlqText, vlqOut, mapPc, mapRaw, mapTable, mapPos, mapResult>>

vlqVars == <<vlqPc, vlqInts, vlqText, vlqOut>>

\* The rule list of LogAnalyzer, which owns the resolver.
VARIABLES
  errorPatterns,   \* LogAnalyzer.errorPatterns, first rule first
  ruleOp           \* observer: the last operation on the rule list

analyzerVars == <<errorPatterns, ruleOp>>

\* What the interceptors capture and what analyze last returned.
VARIABLES
  requests,      \* NetworkInterceptor.requests: a Map, in insertion order
  maxRequests,   \* NetworkInterceptor.maxRequests
  inflight,      \* the calls of the fetch wrapper that have not returned
  fetched,       \* calls of the fetch wrapper so far
  evicted,       \* observer: ids addRequest deleted for room
  logs,          \* ConsoleInterceptor.logs
  maxLogs,       \* ConsoleInterceptor.maxLogs
  captured,      \* logs captured so far
  analysis       \* observer: the last analyze call and what it returned

networkVars == <<requests, maxRequests, inflight, fetched, evicted>>

consoleVars == <<logs, maxLogs, captured>>

\* What is installed on the page, and the Zyle instance that installs it.
VARIABLES
  consoleMethod,        \* console[method]: the function installed
  originalMethods,      \* ConsoleInterceptor.originalMethods
  consoleIntercepting,  \* ConsoleInterceptor.isIntercepting
  consoleListeners,     \* size of ConsoleInterceptor.listeners
  windowFetch,          \* window.fetch: the wrappers on the native fetch
  fetchInterceptor,     \* NetworkInterceptor.fetchInterceptor
  networkIntercepting,  \* NetworkInterceptor.isIntercepting
  networkListeners,     \* size of NetworkInterceptor.listeners
  isInitialized,        \* Zyle.isInitialized
  lastCall              \* observer: the last call the page made

hookVars ==
  <<consoleMethod, originalMethods, consoleIntercepting, consoleListeners,
    windowFetch, fetchInterceptor, networkIntercepting, networkListeners,
    isInitialized, lastCall>>

captureVars == <<networkVars, consoleVars, analysis, hookVars>>

\* What no operation of the resolver touches.
otherVars == <<decoderVars, analyzerVars, captureVars>>

mapVars == <<mapPc, mapRaw, mapTable, mapPos, mapResult>>

\* The bundles of the page: two .js files and one whose name does not end
\* in .js. A URL is its directory followed by the tokens of the file name.
Dir == "/assets/"

FileA == <<Dir, "a", ".js">>

FileB == <<Dir, "b", ".js">>

FileC == <<Dir, "c", ".mjs">>

Files == {FileA, FileB, FileC}

\* The frames parseStackTrace hands over: a file, a 1-based line, a column.
Frame(f) ==
  [fileName |-> f, lineNumber |-> 1, columnNumber |-> 3,
   functionName |-> "render", source |-> "at render"]

Frames == {Frame(f) : f \in {FileA, FileC}}

NoFrame ==
  [fileName |-> <<>>, lineNumber |-> 0, columnNumber |-> 0,
   functionName |-> "", source |-> ""]

NoUrl == <<>>

\* The source maps a server may hand out. "AAAA,EAAE" maps column 0 to
\* original column 0 and column 2 to original column 2 of s.ts.
GoodMap ==
  [version |-> 3, sources |-> <<"s.ts">>, names |-> <<>>,
   mappings |-> <<"A", "A", "A", "A", ",", "E", "A", "A", "E">>,
   sourcesContent |-> << <<"l1", "l2">> >>]

\* JSON that is an object but has no "mappings": decodeMappings throws.
NoMappingsMap == [version |-> 3, sources |-> <<"s.ts">>]

\* JSON with mappings and no "sources": originalPositionFor throws.
NoSourcesMap == [version |-> 3, mappings |-> <<"A", "A", "A", "A">>]

RawMaps == {GoodMap, NoMappingsMap, NoSourcesMap}

\* null, as a cache value and as the return value of loadSourceMap.
Null == [id |-> 0]

NullRaw == [isNull |-> TRUE]

IsConsumer(v) == v.id # 0

\* What a response body or an inline payload can be, by what startsWith('{'),
\* atob and JSON.parse make of it.
Docs ==
  {[kind |-> "js"], [kind |-> "badjson"]}
    \cup {[kind |-> "json", value |-> m] : m \in RawMaps}

\* Inline payloads, named by what atob and JSON.parse make of them: not
\* base64 (atob throws), the JSON of GoodMap.
InlinePayloads == {"!base64", "good"}

InlineDoc(payload) ==
  IF payload = "good" THEN [kind |-> "json", value |-> GoodMap]
  ELSE [kind |-> "rejected"]

\* The references a sourceMappingURL directive may carry: a relative file
\* name, or an inline data:application/json;base64 payload.
DataPrefix == "data:application/json;base64,"

Refs == {<<"x", ".map">>} \cup {<<DataPrefix, d>> : d \in InlinePayloads}

IsDataUrl(url) == url # <<>> /\ url[1] = DataPrefix

\* new URL(relative, base).href: an absolute reference stands, a relative
\* file name lands in the directory of base.
resolveUrl(relative, base) ==
  IF IsDataUrl(relative) THEN relative ELSE <<base[1]>> \o relative

\* The candidates of findSourceMapUrl: `${fileUrl}.map` and
\* fileUrl.replace(/\.js$/, '.js.map').
AppendMap(fileUrl) == fileUrl \o <<".map">>

ReplaceJs(fileUrl) ==
  IF Last(fileUrl) = ".js" THEN Front(fileUrl) \o <<".js", ".map">> ELSE fileUrl

possibleUrls(fileUrl) == <<AppendMap(fileUrl), ReplaceJs(fileUrl)>>

\* ------------------------------------------------------------------------
\* The cache operations
\* ------------------------------------------------------------------------

Restrict(f, S) == [k \in S |-> f[k]]

Put(f, key, value) ==
  [k \in DOMAIN f \cup {key} |-> IF k = key THEN value ELSE f[k]]

EmptyMap == [k \in {} |-> Null]

RemoveAll(s, key) == SelectSeq(s, LAMBDA x : x # key)

\* cacheAccessOrder.indexOf(key), 1-based, 0 for -1.
IndexOf(s, key) ==
  IF \E i \in DOMAIN s : s[i] = key
  THEN CHOOSE i \in DOMAIN s : s[i] = key /\ \A j \in 1..(i - 1) : s[j] # key
  ELSE 0

\* updateCacheAccess: splice the first occurrence out and push the key.
updateCacheAccess(order, key) ==
  LET index == IndexOf(order, key)
  IN IF index > 0
     THEN Append(SubSeq(order, 1, index - 1) \o SubSeq(order, index + 1, Len(order)),
                 key)
     ELSE order

\* An addToCache that deletes the oldest entry without calling destroy().
addToCacheNoDestroy(c, key, value) ==
  LET full == Cardinality(DOMAIN c.cache) >= MAX_CACHE_SIZE
      shifts == full /\ c.order # <<>>
      oldestKey == Head(c.order)
      order1 == IF shifts THEN Tail(c.order) ELSE c.order
      deletes == shifts /\ oldestKey \in DOMAIN c.cache
      cache1 ==
        IF deletes THEN Restrict(c.cache, DOMAIN c.cache \ {oldestKey})
        ELSE c.cache
  IN [cache |-> Put(cache1, key, value),
      order |-> Append(order1, key),
      destroyed |-> c.destroyed,
      evicted |-> IF deletes THEN {oldestKey} ELSE {}]

\* An addToCache that takes the oldest key off the access order and leaves
\* its entry in the cache.
addToCacheNoDelete(c, key, value) ==
  LET full == Cardinality(DOMAIN c.cache) >= MAX_CACHE_SIZE
      shifts == full /\ c.order # <<>>
      order1 == IF shifts THEN Tail(c.order) ELSE c.order
  IN [cache |-> Put(c.cache, key, value),
      order |-> Append(order1, key),
      destroyed |-> c.destroyed,
      evicted |-> {}]

\* addToCache on c = [cache, order, destroyed]. evicted: the keys that
\* sourceMapCache.delete removed. shift() of an empty array is undefined, and
\* a file name from parseStackTrace is never the empty string, so
\* `if (oldestKey)` is the test that the order was not empty.
addToCache(c, key, value) ==
  LET full == Cardinality(DOMAIN c.cache) >= MAX_CACHE_SIZE
      shifts == full /\ c.order # <<>>
      oldestKey == Head(c.order)
      order1 == IF shifts THEN Tail(c.order) ELSE c.order
      deletes == shifts /\ oldestKey \in DOMAIN c.cache
      destroyed1 ==
        IF deletes /\ IsConsumer(c.cache[oldestKey])
        THEN c.destroyed \cup {c.cache[oldestKey].id}
        ELSE c.destroyed
      cache1 ==
        IF deletes THEN Restrict(c.cache, DOMAIN c.cache \ {oldestKey})
        ELSE c.cache
  IN [cache |-> Put(cache1, key, value),
      order |-> Append(order1, key),
      destroyed |-> destroyed1,
      evicted |-> IF deletes THEN {oldestKey} ELSE {}]

\* ------------------------------------------------------------------------
\* resolveStackFrame as a process
\* ------------------------------------------------------------------------

Tasks == 1..MaxTasks

\* One call of resolveStackFrame. pc is the await it is suspended at:
\*   head1, head2  the HEAD probe of possibleUrls[0], possibleUrls[1]
\*   body          fetch(fileUrl) for the directive scan
\*   found         findSourceMapUrl returned the URL it had in sourceMapUrls
\*   loading       fetch(url) of loadSourceMap
\*   done          the promise is settled
\* fetches lists the requests the call issued, in order. failure says where
\* the resolution failed: "locate" (no mapping located), "load" (the payload
\* was not obtained or rejected), "decode" (createSourceMapConsumer threw),
\* "lookup" (originalPositionFor threw). payload and raw note what the
\* call's own loadSourceMap made of its response and returned.
IdleTask ==
  [pc |-> "idle", frame |-> NoFrame, url |-> NoUrl, fetches |-> <<>>,
   failure |-> "none", settled |-> "pending", value |-> NoFrame,
   lookup |-> "none", wasAbsent |-> FALSE, payload |-> "none",
   raw |-> NullRaw]

Request(method, url) == [method |-> method, url |-> url]

\* A slice that stops at the resolved line.
SourcePreviewUpTo(lines, line) ==
  SubSeq(lines, (IF line - 1 - 3 > 0 THEN line - 1 - 3 ELSE 0) + 1,
         IF line < Len(lines) THEN line ELSE Len(lines))

\* The slice of sourceContent.split('\n') around the resolved line, kept as
\* the list of lines that join('\n') glues together.
SourcePreview(lines, line) ==
  LET lineIndex == line - 1
      startLine == IF lineIndex - 3 > 0 THEN lineIndex - 3 ELSE 0
      endLine == IF lineIndex + 3 + 1 < Len(lines) THEN lineIndex + 3 + 1
                 ELSE Len(lines)
  IN SubSeq(lines, startLine + 1, endLine)

\* A source text is the list of its lines (what split('\n') returns, which
\* is never empty), so the empty list stands for null and undefined.
NoContent == <<>>

\* The consumer's sourceContentFor.
sourceContentFor(rawSourceMap, source) ==
  LET index == IndexOf(rawSourceMap.sources, source)
  IN IF index # 0 /\ "sourcesContent" \in DOMAIN rawSourceMap
     THEN ArrayAt(rawSourceMap.sourcesContent, index - 1, NoContent)
     ELSE NoContent

\* A resolveStackFrame whose catch rethrows instead of falling through: the
\* promise rejects.
CatchResolveRethrow(frame) ==
  [settled |-> "rejected", value |-> NoFrame, failure |-> "lookup"]

\* The catch of resolveStackFrame: warn, fall through to `return frame`.
CatchResolve(frame) ==
  [settled |-> "fulfilled", value |-> frame, failure |-> "lookup"]

\* `return frame`: the promise fulfils with the input frame.
Unresolved(frame) ==
  [settled |-> "fulfilled", value |-> frame, failure |-> "none"]

\* The sourcePreview of resolveStackFrame for the content sourceContentFor
\* returned (a falsy content leaves it undefined).
PreviewOf(content, line) ==
  IF content # NoContent /\ content # <<"">>
  THEN SourcePreview(content, line)
  ELSE NoContent

\* { ...frame, original }: a new object with the own fields of frame and
\* the field original (which replaces one the frame already has).
WithOriginal(frame, original) ==
  [k \in DOMAIN frame \cup {"original"} |->
     IF k = "original" THEN original ELSE frame[k]]

\* resolveStackFrame from originalPositionFor's return on.
ResolveAt(frame, consumer, pos) ==
  IF pos.thrown THEN CatchResolve(frame)
  ELSE IF pos.source # Undefined /\ pos.source # ""
  THEN [settled |-> "fulfilled",
        value |-> WithOriginal(
                    frame,
                    [fileName |-> pos.source,
                     lineNumber |-> pos.line,
                     columnNumber |-> pos.column,
                     source |-> PreviewOf(sourceContentFor(consumer.raw,
                                                           pos.source),
                                          pos.line)]),
        failure |-> "none"]
  ELSE Unresolved(frame)

\* resolveStackFrame from `if (!consumer) return frame` on, for the value
\* getSourceMapConsumer returned.
ResolveWith(frame, consumer) ==
  IF ~IsConsumer(consumer) THEN Unresolved(frame)
  ELSE ResolveAt(frame, consumer,
                 originalPositionFor(consumer.raw, frame.lineNumber,
                                     frame.columnNumber))

\* The resolver's fields and the observers, as one record.
Shared ==
  [cache |-> sourceMapCache, urls |-> sourceMapUrls, order |-> cacheAccessOrder,
   destroyed |-> destroyed, nextId |-> nextId, recency |-> recency,
   absent |-> absent]

Commit(S) ==
  /\ sourceMapCache' = S.cache
  /\ sourceMapUrls' = S.urls
  /\ cacheAccessOrder' = S.order
  /\ destroyed' = S.destroyed
  /\ nextId' = S.nextId
  /\ recency' = S.recency
  /\ absent' = S.absent

\* this.addToCache(key, value) on the resolver, with what the observers
\* note: the key is the most recently accessed, evicted keys are forgotten.
Insert(S, key, value) ==
  LET r == addToCache([cache |-> S.cache, order |-> S.order,
                       destroyed |-> S.destroyed], key, value)
      kept == SelectSeq(S.recency, LAMBDA k : k \notin r.evicted /\ k # key)
  IN [S EXCEPT !.cache = r.cache, !.order = r.order,
               !.destroyed = r.destroyed,
               !.recency = Append(kept, key),
               !.absent = IF IsConsumer(value) THEN @ \ r.evicted
                          ELSE (@ \ r.evicted) \cup {key}]

\* A resolveStackFrame that writes its result into the frame it was handed
\* and returns that frame.
SettleInPlace(task, res) ==
  [task EXCEPT !.pc = "done", !.settled = res.settled, !.value = res.value,
               !.frame = res.value,
               !.url = NoUrl, !.fetches = <<>>,
               !.failure = IF task.failure # "none" THEN task.failure
                           ELSE res.failure]

\* The promise settles; what the call fetched on its way is dropped.
Settle(task, res) ==
  [task EXCEPT !.pc = "done", !.settled = res.settled, !.value = res.value,
               !.url = NoUrl, !.fetches = <<>>,
               !.failure = IF task.failure # "none" THEN task.failure
                           ELSE res.failure]

\* What getSourceMapConsumer caches and returns for the return value of
\* loadSourceMap (raw: the source map, or NullRaw). createSourceMapConsumer
\* throws when rawSourceMap.mappings is undefined; the catch of
\* getSourceMapConsumer caches null and returns null.
ConsumerFor(raw, id) ==
  IF raw = NullRaw THEN Null
  ELSE IF "mappings" \notin DOMAIN raw THEN Null
  ELSE [id |-> id, raw |-> raw]

FailureOf(raw) ==
  IF raw = NullRaw THEN "load"
  ELSE IF "mappings" \notin DOMAIN raw THEN "decode"
  ELSE "none"

\* addToCache of that value, then the rest of resolveStackFrame.
ConcludeWith(S, task, value, failure) ==
  [S |-> Insert([S EXCEPT !.nextId = IF IsConsumer(value) THEN @ + 1 ELSE @],
                task.frame.fileName, value),
   task |-> Settle([task EXCEPT !.failure = failure],
                   ResolveWith(task.frame, value))]

\* A getSourceMapConsumer that, when the payload at the URL the first probe
\* located is not obtained, goes on to the second probe.
ConcludeOrProbeOn(S, task, raw) ==
  IF FailureOf(raw) # "none" /\ task.pc = "loading" /\ Len(task.fetches) = 2
  THEN [S |-> S,
        task |-> [task EXCEPT
                    !.pc = "head2",
                    !.fetches = <<task.fetches[1],
                                  Request("HEAD",
                                          possibleUrls(task.frame.fileName)[2])>>]]
  ELSE ConcludeWith(S, [task EXCEPT !.raw = raw],
                    ConsumerFor(raw, S.nextId + 1), FailureOf(raw))

Conclude(S, task, raw) ==
  ConcludeWith(S, [task EXCEPT !.raw = raw], ConsumerFor(raw, S.nextId + 1),
               FailureOf(raw))

\* The data: branch of loadSourceMap: atob and JSON.parse of the payload; a
\* throw of either is caught and loadSourceMap returns null.
LoadInline(payload) ==
  LET doc == InlineDoc(payload)
  IN IF doc.kind = "json" THEN doc.value ELSE NullRaw

\* loadSourceMap(url) up to its first await: an inline payload is decoded
\* at once, anything else is fetched.
BeginLoad(S, task, url) ==
  IF IsDataUrl(url)
  THEN Conclude(S, [task EXCEPT !.url = url], LoadInline(url[2]))
  ELSE [S |-> S,
        task |-> [task EXCEPT !.pc = "loading", !.url = url,
                              !.fetches = Append(@, Request("GET", url))]]

\* ------------------------------------------------------------------------
\* The actions
\* ------------------------------------------------------------------------

SetTask(t, task) == tasks' = [tasks EXCEPT ![t] = task]

\* The step of task t to r.task with the resolver left as r.S.
Step(t, r) == SetTask(t, r.task) /\ Commit(r.S)

\* The step of all slots to r.tasks with the resolver left as r.S.
StepAll(r) == tasks' = r.tasks /\ Commit(r.S)

\* The slots r.tasks with slot i taken by the call b.task, the resolver
\* left as b.S.
BeginNext(r, i, b) == [S |-> b.S, tasks |-> [r.tasks EXCEPT ![i] = b.task]]

\* A resolveStackFrame without the test of isEnabled.
NeverDisabled(enabled) == FALSE

\* `if (!this.isEnabled) return frame`.
Disabled(enabled) == ~enabled

\* resolveStackFrame(frame) up to its first suspension, on the resolver
\* fields S: the fields after it, and the call as it stands.
Begin(S, frame) ==
  LET key == frame.fileName
      task == [IdleTask EXCEPT !.frame = frame,
                               !.wasAbsent = isEnabled /\ key \in S.absent]
  IN IF Disabled(isEnabled)
     THEN [S |-> S,
           task |-> [task EXCEPT !.pc = "done", !.settled = "fulfilled",
                                 !.value = frame, !.lookup = "disabled"]]
     ELSE IF key \in DOMAIN S.cache
     THEN [S |-> [S EXCEPT !.order = updateCacheAccess(@, key),
                           !.recency = Append(RemoveAll(@, key), key)],
           task |-> Settle([task EXCEPT !.lookup = "hit"],
                           ResolveWith(frame, S.cache[key]))]
     ELSE IF key \in DOMAIN S.urls
     THEN [S |-> S,
           task |-> [task EXCEPT !.pc = "found", !.lookup = "miss",
                                 !.url = S.urls[key]]]
     ELSE [S |-> S,
           task |-> [task EXCEPT
                       !.pc = "head1", !.lookup = "miss",
                       !.fetches = <<Request("HEAD", possibleUrls(key)[1])>>]]

\* One resolveStackFrame call. It takes the first free slot: which slot
\* holds a call means nothing to the program.
Start(t, frame, limit) ==
  /\ tasks[t].pc = "idle"
  /\ \A u \in 1..(t - 1) : tasks[u].pc # "idle"
  /\ started < limit
  /\ started' = started + 1
  /\ UNCHANGED <<isEnabled, batch, otherVars>>
  /\ Step(t, Begin(Shared, frame))

\* The continuation of getSourceMapConsumer after findSourceMapUrl returned
\* the URL already in sourceMapUrls.
Found(t) ==
  /\ tasks[t].pc = "found"
  /\ Step(t, BeginLoad(Shared, tasks[t], tasks[t].url))
  /\ UNCHANGED <<isEnabled, started, batch, otherVars>>

\* The answer to a HEAD probe: response.ok, !response.ok, or fetch rejects.
HeadOutcomes == {"ok", "notok", "throw"}

HeadResponse(t, outcome) ==
  /\ tasks[t].pc \in {"head1", "head2"}
  /\ LET task == tasks[t]
           key == task.frame.fileName
         url == Last(task.fetches).url
     IN IF outcome = "ok"
        THEN Step(t, BeginLoad([Shared EXCEPT !.urls = Put(@, key, url)],
                               task, url))
        ELSE IF task.pc = "head1"
        THEN /\ SetTask(t, [task EXCEPT
                              !.pc = "head2",
                              !.fetches = Append(@, Request("HEAD",
                                                    possibleUrls(key)[2]))])
             /\ Commit(Shared)
        ELSE /\ SetTask(t, [task EXCEPT
                              !.pc = "body",
                              !.fetches = Append(@, Request("GET", key))])
             /\ Commit(Shared)
  /\ UNCHANGED <<isEnabled, started, batch, otherVars>>

\* The answer to fetch(fileUrl): the body carries a directive with a
\* reference, or carries none, or the response is not OK, or fetch rejects.
BodyOutcomes ==
  {[kind |-> "directive", ref |-> ref] : ref \in Refs}
    \cup {[kind |-> k, ref |-> NoUrl] : k \in {"plain", "notok", "throw"}}

BodyResponse(t, outcome) ==
  /\ tasks[t].pc = "body"
  /\ LET task == tasks[t]
         key == task.frame.fileName
     IN IF outcome.kind = "directive"
        THEN Step(t, BeginLoad([Shared EXCEPT
                                  !.urls = Put(@, key,
                                               resolveUrl(outcome.ref, key))],
                               task, resolveUrl(outcome.ref, key)))
        ELSE /\ SetTask(t, Settle([task EXCEPT !.failure = "locate"],
                                  Unresolved(task.frame)))
             /\ Commit(Insert(Shared, key, Null))
  /\ UNCHANGED <<isEnabled, started, batch, otherVars>>

\* The answer to fetch(url) of loadSourceMap. contentType "" stands for a
\* response without the header (headers.get returns null).
LoadOutcomes ==
  {[status |-> "throw", contentType |-> "", doc |-> [kind |-> "js"]],
   [status |-> "notok", contentType |-> "", doc |-> [kind |-> "js"]]}
    \cup {[status |-> "ok", contentType |-> c, doc |-> d] :
            c \in {"", "application/json", "text/javascript"}, d \in Docs}

\* A loadSourceMap that parses whatever an OK response carries, without
\* looking at the content-type or at the first character of the body.
LoadResultUnvalidated(outcome) ==
  IF outcome.status # "ok" THEN NullRaw
  ELSE IF outcome.doc.kind = "json" THEN outcome.doc.value
  ELSE GoodMap

\* loadSourceMap from the response on: the source map, or NullRaw for null.
LoadResult(outcome) ==
  IF outcome.status # "ok" THEN NullRaw
  ELSE IF outcome.contentType # "" /\ outcome.contentType # "application/json"
  THEN NullRaw
  ELSE IF outcome.doc.kind # "json" THEN NullRaw
  ELSE outcome.doc.value

\* What loadSourceMap made of the response: "invalid" when the content-type
\* or the first character of the body made it return null.
PayloadOf(outcome) ==
  IF outcome.status # "ok" THEN "none"
  ELSE IF outcome.contentType # "" /\ outcome.contentType # "application/json"
  THEN "invalid"
  ELSE IF outcome.doc.kind = "js" THEN "invalid"
  ELSE "none"

LoadResponse(t, outcome) ==
  /\ tasks[t].pc = "loading"
  /\ Step(t, Conclude(Shared,
                      [tasks[t] EXCEPT !.payload = PayloadOf(outcome)],
                      LoadResult(outcome)))
  /\ UNCHANGED <<isEnabled, started, batch, otherVars>>

\* ------------------------------------------------------------------------
\* resolveStackFrames
\* ------------------------------------------------------------------------

\* No resolveStackFrames call in flight.
IdleBatch == [pc |-> "idle", frames |-> <<>>, results |-> <<>>]

\* frames.map((frame) => this.resolveStackFrame(frame)): the calls are made
\* one after another, each running up to its first suspension; the call for
\* frames[i] takes slot i. r: the resolver fields and the slots so far.
RECURSIVE BeginAll(_, _, _)
BeginAll(r, frames, i) ==
  IF i > Len(frames) THEN r
  ELSE BeginAll(BeginNext(r, i, Begin(r.S, frames[i])), frames, i + 1)

\* A Promise.all that lists the values from the last promise to the first.
JoinResultsReversed(frames, slots) ==
  [i \in 1..Len(frames) |-> slots[Len(frames) + 1 - i].value]

\* The value Promise.all fulfils with: the values of the promises, in the
\* order of the promises.
JoinResults(frames, slots) == [i \in 1..Len(frames) |-> slots[i].value]

resolveStackFrames(frames, limit) ==
  /\ batch.pc = "idle"
  /\ \A t \in Tasks : tasks[t].pc = "idle"
  /\ Len(frames) <= MaxTasks
  /\ started + Len(frames) <= limit
  /\ started' = started + Len(frames)
  /\ batch' = [pc |-> "pending", frames |-> frames, results |-> <<>>]
  /\ StepAll(BeginAll([S |-> Shared, tasks |-> tasks], frames, 1))
  /\ UNCHANGED <<isEnabled, otherVars>>

\* Promise.all settles: it rejects once one of the promises has rejected,
\* and fulfils once all have fulfilled.
JoinAll ==
  /\ batch.pc = "pending"
  /\ IF \E i \in 1..Len(batch.frames) : tasks[i].settled = "rejected"
     THEN batch' = [batch EXCEPT !.pc = "rejected"]
     ELSE /\ \A i \in 1..Len(batch.frames) : tasks[i].settled = "fulfilled"
          /\ batch' = [batch EXCEPT !.pc = "fulfilled",
                                    !.results = JoinResults(batch.frames, tasks)]
  /\ UNCHANGED <<isEnabled, sourceMapCache, sourceMapUrls, cacheAccessOrder,
                 destroyed, nextId, tasks, started, recency, absent, otherVars>>

\* The caller of resolveStackFrames takes the settled promise.
BatchReturn ==
  /\ batch.pc \in {"fulfilled", "rejected"}
  /\ batch' = IdleBatch
  /\ tasks' = [t \in Tasks |-> IdleTask]
  /\ UNCHANGED <<isEnabled, sourceMapCache, sourceMapUrls, cacheAccessOrder,
                 destroyed, nextId, started, recency, absent, otherVars>>

\* The caller takes the settled promise; the slot is free again.
Return(t) ==
  /\ tasks[t].pc = "done"
  /\ SetTask(t, IdleTask)
  /\ UNCHANGED <<isEnabled, sourceMapCache, sourceMapUrls, cacheAccessOrder,
                 destroyed, nextId, started, recency, absent, batch,
                 otherVars>>

setEnabled(enabled) ==
  /\ isEnabled' = enabled
  /\ UNCHANGED <<sourceMapCache, sourceMapUrls, cacheAccessOrder, destroyed,
                 nextId, tasks, started, recency, absent, batch, otherVars>>

clearCache ==
  /\ destroyed' = destroyed \cup
       {sourceMapCache[k].id : k \in {x \in DOMAIN sourceMapCache :
                                        IsConsumer(sourceMapCache[x])}}
  /\ sourceMapCache' = EmptyMap
  /\ sourceMapUrls' = EmptyMap
  /\ cacheAccessOrder' = <<>>
  /\ recency' = <<>>
  /\ absent' = {}
  /\ UNCHANGED <<isEnabled, nextId, tasks, started, batch, otherVars>>

ResolverInit ==
  /\ isEnabled = TRUE
  /\ sourceMapCache = EmptyMap
  /\ sourceMapUrls = EmptyMap
  /\ cacheAccessOrder = <<>>
  /\ destroyed = {}
  /\ nextId = 0
  /\ tasks = [t \in Tasks |-> IdleTask]
  /\ started = 0
  /\ recency = <<>>
  /\ absent = {}
  /\ batch = IdleBatch

\* The resolver against a network that may answer anything.
Next ==
  \/ \E t \in Tasks, frame \in Frames : Start(t, frame, MaxStarts)
  \/ \E t \in Tasks : Found(t)
  \/ \E t \in Tasks, outcome \in HeadOutcomes : HeadResponse(t, outcome)
  \/ \E t \in Tasks, outcome \in BodyOutcomes : BodyResponse(t, outcome)
  \/ \E t \in Tasks, outcome \in LoadOutcomes : LoadResponse(t, outcome)
  \/ \E t \in Tasks : Return(t)
  \/ \E enabled \in BOOLEAN : setEnabled(enabled)
  \/ clearCache

\* The resolver, enabled, against a server that keeps the map of every
\* bundle at <url>.map: the probe of the first candidate is answered OK,
\* and the load yields the map or fails.
CacheFrames == {Frame(f) : f \in Files}

CacheLoadOutcomes ==
  {[status |-> "notok", contentType |-> "", doc |-> [kind |-> "js"]],
   [status |-> "ok", contentType |-> "application/json",
    doc |-> [kind |-> "json", value |-> GoodMap]]}

CacheNext ==
  \/ \E t \in Tasks, frame \in CacheFrames : Start(t, frame, MaxCacheStarts)
  \/ \E t \in Tasks : Found(t)
  \/ \E t \in Tasks : HeadResponse(t, "ok")
  \/ \E t \in Tasks, outcome \in CacheLoadOutcomes : LoadResponse(t, outcome)
  \/ \E t \in Tasks : Return(t)
  \/ clearCache

\* ------------------------------------------------------------------------
\* The decoder under test: the VLQ round trip and the position lookup
\* ------------------------------------------------------------------------

NoPos == [line |-> 0, column |-> 0]

VlqOff == vlqPc = "off" /\ vlqInts = <<>> /\ vlqText = <<>> /\ vlqOut = <<>>

MapOff ==
  /\ mapPc = "off"
  /\ mapRaw = NullRaw
  /\ mapTable = <<>>
  /\ mapPos = NoPos
  /\ mapResult = NullPosition

VlqInputs == SeqsUpTo((-MaxVLQ)..MaxVLQ, MaxVLQLen)

VlqInit ==
  /\ vlqPc = "input"
  /\ vlqInts \in VlqInputs
  /\ vlqText = <<>>
  /\ vlqOut = <<>>

Encode ==
  /\ vlqPc = "input"
  /\ vlqText' = encodeVLQSeq(vlqInts)
  /\ vlqPc' = "encoded"
  /\ UNCHANGED <<vlqInts, vlqOut, resolverVars, mapVars, analyzerVars,
                 captureVars>>

Decode ==
  /\ vlqPc = "encoded"
  /\ vlqOut' = decodeVLQ(vlqText)
  /\ vlqPc' = "decoded"
  /\ UNCHANGED <<vlqInts, vlqText, resolverVars, mapVars, analyzerVars,
                 captureVars>>

\* The segments a mapping table is drawn from: an unmapped segment (one
\* field, column delta 0), mapped segments with generated-column deltas
\* 0, 1 and 2, and a named segment (five fields).
SegTexts ==
  {<<"A">>, <<"A", "A", "A", "A">>, <<"C", "A", "A", "C">>,
   <<"E", "A", "C", "E">>, <<"C", "C", "A", "C", "C">>}

MapLines == SeqsUpTo(SegTexts, MaxSegs)

MapTexts ==
  {Join([i \in DOMAIN ls |-> Join(ls[i], ",")], ";") :
     ls \in SeqsUpTo(MapLines, MaxLines)}

MapInit ==
  /\ mapPc = "table"
  /\ \E text \in MapTexts :
       mapRaw = [version |-> 3, sources |-> <<"s.ts">>, names |-> <<>>,
                 mappings |-> text]
  /\ mapTable = <<>>
  /\ mapPos = NoPos
  /\ mapResult = NullPosition

\* createSourceMapConsumer: the mappings are decoded once.
createSourceMapConsumer ==
  /\ mapPc = "table"
  /\ mapTable' = decodeMappings(mapRaw.mappings)
  /\ mapPc' = "consumer"
  /\ UNCHANGED <<mapRaw, mapPos, mapResult, resolverVars, vlqVars,
                 analyzerVars, captureVars>>

Lookup(line, column) ==
  /\ mapPc = "consumer"
  /\ mapPos' = [line |-> line, column |-> column]
  /\ mapResult' = originalPositionFor(mapRaw, line, column)
  /\ mapPc' = "looked"
  /\ UNCHANGED <<mapRaw, mapTable, resolverVars, vlqVars, analyzerVars,
                 captureVars>>

\* ------------------------------------------------------------------------
\* Part III: the rule list of LogAnalyzer
\* ------------------------------------------------------------------------

\* A message is a sequence of fragments and the source of a pattern is the
\* set of fragments in which the regular expression finds a match, so that
\* a search is a scan of the message from a position on: what
\* RegExp.prototype.test does with lastIndex is computed.
MaxMessageLen == 2

\* The user rules addErrorPattern is let to put ahead of the built-in ones.
MaxAdded == 2

\* new RegExp(source, flags) throws on these.
Unterminated == "("

ValidFlags == {"", "i", "g", "gi"}

RegExpThrows(source, flags) == Unterminated \in source \/ flags \notin ValidFlags

\* A regular expression object: lastIndex is 0 when it is created.
RegExpNew(source, flags) == [source |-> source, flags |-> flags, lastIndex |-> 0]

IsGlobal(re) == re.flags \in {"g", "gi"}

\* The positions of the message, from one on, where the pattern matches.
MatchesFrom(re, message, from) ==
  {i \in (from + 1)..Len(message) : message[i] \in re.source}

\* The first of a set of positions.
First(positions) == CHOOSE i \in positions : \A j \in positions : i <= j

\* re.test(message): a global expression searches from its lastIndex on and
\* leaves lastIndex at the end of the match, or at 0 when it finds none;
\* any other searches from 0 and keeps its lastIndex.
Test(re, message) ==
  IF IsGlobal(re)
  THEN IF MatchesFrom(re, message, re.lastIndex) # {}
       THEN [result |-> TRUE,
             re |-> [re EXCEPT
                       !.lastIndex = First(MatchesFrom(re, message, re.lastIndex))]]
       ELSE [result |-> FALSE, re |-> [re EXCEPT !.lastIndex = 0]]
  ELSE [result |-> MatchesFrom(re, message, 0) # {}, re |-> re]

\* A text is a sequence of pieces, so that a text made from a template and
\* the fields of a request is computed.
Text(s) == <<s>>

Rule(source, flags, errorType, possibleCauses, suggestions, severity) ==
  [pattern |-> RegExpNew(source, flags), errorType |-> errorType,
   possibleCauses |-> possibleCauses, suggestions |-> suggestions,
   severity |-> severity]

\* The suggestion two built-in rules share with the guidance for a request
\* that timed out.
CheckConnection == Text("Check the network connection")

\* The built-in rules, in their order. Of the texts of a rule the model
\* keeps the first cause and the first suggestion, the suggestion the
\* network guidance repeats, and the cause that names 404. Each source
\* holds, of the fragments
\* below, those the rule's expression matches: "[HTTP 404]" is matched by
\* /\[HTTP 4\d{2}\]/ and by /404|Not Found/, "is not defined" by the
\* expressions of Type Error and of Reference Error.
DEFAULT_ERROR_PATTERNS ==
  << Rule({"Failed to fetch"}, "i", "Network Connection Error",
          <<Text("DNS lookup failed")>>,
          <<Text("Check the domain of the URL"), CheckConnection>>, "critical"),
     Rule({"[HTTP 404]"}, "i", "HTTP Client Error",
          <<Text("The authentication token is missing or expired (401)"),
            Text("The requested resource was not found (404)")>>,
          <<Text("Check the authentication state and log in again")>>, "high"),
     Rule({"[HTTP 500]"}, "i", "HTTP Server Error",
          <<Text("An internal server error occurred (500)")>>,
          <<Text("Try again later")>>, "critical"),
     Rule({"timeout"}, "i", "Network Timeout",
          <<Text("The server responds too slowly")>>,
          <<Text("Raise the timeout"), CheckConnection>>, "high"),
     Rule({"CORS"}, "i", "CORS Error",
          <<Text("The server sets no CORS header")>>,
          <<Text("Check the CORS settings of the server")>>, "high"),
     Rule({"TypeError", "is not defined"}, "i", "Type Error",
          <<Text("A null or undefined value was accessed")>>,
          <<Text("Use optional chaining")>>, "high"),
     Rule({"ReferenceError", "is not defined"}, "i", "Reference Error",
          <<Text("An undeclared variable was referenced")>>,
          <<Text("Check the variable name for typos")>>, "high"),
     Rule({"SyntaxError"}, "i", "Syntax Error",
          <<Text("The JSON is malformed")>>,
          <<Text("Check the format of the JSON data")>>, "high"),
     Rule({"RangeError"}, "i", "Range Error",
          <<Text("Infinite recursion occurred")>>,
          <<Text("Check the end condition of the recursion")>>, "critical"),
     Rule({"render"}, "i", "React Error",
          <<Text("The rules of hooks were violated")>>,
          <<Text("Call hooks at the top level of a component")>>, "medium"),
     Rule({"Promise"}, "i", "Async Error",
          <<Text("A rejected promise was not handled")>>,
          <<Text("Handle asynchronous errors with try-catch")>>, "medium"),
     Rule({"401"}, "i", "Authentication Error",
          <<Text("The authentication token is invalid or expired")>>,
          <<Text("Check the login state")>>, "medium"),
     Rule({"403"}, "i", "Authorization Error",
          <<Text("No permission for the resource")>>,
          <<Text("Check the permissions of the user")>>, "medium"),
     Rule({"[HTTP 404]"}, "i", "Not Found Error",
          <<Text("The requested resource was not found")>>,
          <<Text("Check the URL")>>, "medium"),
     Rule({"[HTTP 500]"}, "i", "Server Error",
          <<Text("An error occurred inside the server")>>,
          <<Text("Check the server log")>>, "high"),
     Rule({"deprecated"}, "i", "Deprecation Warning",
          <<Text("A deprecated API is in use")>>,
          <<Text("Migrate to the recommended API")>>, "low") >>

\* The fragments the messages under test are made of: one only built-in
\* rules match, two a user rule matches too, one nothing built-in matches.
MessageFragments == {"[HTTP 404]", "is not defined", "deprecated", "MyCustomError"}

Messages == SeqsUpTo(MessageFragments, MaxMessageLen) \ {<< >>}

\* The rules a caller adds: the one of the README, the same with a global
\* expression that also matches what Type Error matches, and one that
\* carries the errorType of a built-in rule.
CustomCauses == <<Text("A custom error occurred")>>

CustomSuggestions == <<Text("Check your custom error handling")>>

CustomRule ==
  Rule({"MyCustomError"}, "i", "Custom Error", CustomCauses, CustomSuggestions,
       "high")

GlobalRule ==
  Rule({"MyCustomError", "is not defined"}, "gi", "Custom Error", CustomCauses,
       CustomSuggestions, "high")

OverrideRule ==
  Rule({"is not defined"}, "i", "Type Error", CustomCauses, CustomSuggestions,
       "low")

UserPatterns == {CustomRule, GlobalRule, OverrideRule}

\* The errorTypes removeErrorPattern is called with: of built-in rules, of
\* added rules, of no rule.
RemovedTypes ==
  {"Type Error", "Not Found Error", "Custom Error", "Imported Error",
   "No Such Error"}

\* The rule list as the constructor and resetErrorPatterns make it.
initErrorPatterns == DEFAULT_ERROR_PATTERNS

\* ---- serialised rules ---------------------------------------------------

\* An element of the serialised array: an object with the properties of a
\* SerializableErrorPattern, a value with none of them ({} or a number), or
\* null.
Serialized(kind, source, flags, errorType) ==
  [kind |-> kind, patternSource |-> source, patternFlags |-> flags,
   errorType |-> errorType, possibleCauses |-> CustomCauses,
   suggestions |-> CustomSuggestions, severity |-> "high"]

SerializedCustom == Serialized("object", {"MyCustomError"}, "i", "Imported Error")

SerializedGlobal ==
  Serialized("object", {"MyCustomError", "is not defined"}, "gi", "Imported Error")

SerializedBadSource == Serialized("object", {Unterminated}, "i", "Custom Error")

SerializedBadFlags == Serialized("object", {"MyCustomError"}, "x", "Custom Error")

SerializedBare == Serialized("bare", {}, "", Undefined)

SerializedNull == Serialized("null", {}, "", Undefined)

\* A JSON text: one JSON.parse rejects, or the text of a value.
JsonText(value) == [wellFormed |-> TRUE, value |-> value]

JsonArray(elements) == [kind |-> "array", elements |-> elements]

JsonObject == [kind |-> "object", elements |-> << >>]

Malformed == [wellFormed |-> FALSE, value |-> JsonObject]

JsonTexts ==
  { Malformed,
    JsonText(JsonObject),
    JsonText(JsonArray(<< >>)),
    JsonText(JsonArray(<<SerializedCustom>>)),
    JsonText(JsonArray(<<SerializedGlobal>>)),
    JsonText(JsonArray(<<SerializedBare>>)),
    JsonText(JsonArray(<<SerializedCustom, SerializedNull>>)),
    JsonText(JsonArray(<<SerializedCustom, SerializedBadSource>>)),
    JsonText(JsonArray(<<SerializedBadFlags>>)) }

Threw == [threw |-> TRUE, patterns |-> << >>]

\* JSON.parse(json).
JSONparse(json) ==
  IF json.wellFormed
  THEN [threw |-> FALSE, value |-> json.value]
  ELSE [threw |-> TRUE, value |-> JsonObject]

\* The possibleCauses or suggestions of a rule made from a value that has
\* neither: undefined, which cannot be spread into an array.
NotIterable == << <<Undefined>> >>

\* new RegExp(undefined, undefined) is /(?:)/: it matches every message.
MatchAll == RegExpNew(MessageFragments, "")

\* deserializePattern(serialized): reading a property of null throws, a
\* value without the properties gives a rule of undefined fields, and the
\* RegExp constructor throws on a source or flags it cannot compile.
deserializePattern(serialized) ==
  CASE serialized.kind = "null" -> Threw
    [] serialized.kind = "bare" ->
         [threw |-> FALSE,
          patterns |-> << [pattern |-> MatchAll, errorType |-> Undefined,
                           possibleCauses |-> NotIterable,
                           suggestions |-> NotIterable,
                           severity |-> Undefined] >>]
    [] OTHER ->
         IF RegExpThrows(serialized.patternSource, serialized.patternFlags)
         THEN Threw
         ELSE [threw |-> FALSE,
               patterns |-> << Rule(serialized.patternSource,
                                    serialized.patternFlags,
                                    serialized.errorType,
                                    serialized.possibleCauses,
                                    serialized.suggestions,
                                    serialized.severity) >>]

\* serialized.map(deserializePattern), from element i on: the first element
\* that throws ends it.
RECURSIVE DeserializeFrom(_, _, _)
DeserializeFrom(elements, i, done) ==
  IF i > Len(elements)
  THEN [threw |-> FALSE, patterns |-> done]
  ELSE IF deserializePattern(elements[i]).threw
       THEN Threw
       ELSE DeserializeFrom(elements, i + 1,
                            done \o deserializePattern(elements[i]).patterns)

\* importPatternsFromJSON(json): a value that is not an array has no map.
ImportParsed(parsed) ==
  IF parsed.threw \/ parsed.value.kind # "array"
  THEN Threw
  ELSE DeserializeFrom(parsed.value.elements, 1, << >>)

importPatternsFromJSON(json) == ImportParsed(JSONparse(json))

\* ---- the operations -----------------------------------------------------

\* The rule is one of the built-in list.
BuiltIn(rule) ==
  \E i \in DOMAIN DEFAULT_ERROR_PATTERNS : DEFAULT_ERROR_PATTERNS[i] = rule

\* How many rules a list holds, and how many of them are not built-in.
Sizes(patterns) ==
  [count |-> Len(patterns),
   added |-> Len(SelectSeq(patterns, LAMBDA p : ~BuiltIn(p)))]

\* What the observer keeps of an operation: its name, the sizes of the list
\* it was called on, the message and the place of the rule returned for a
\* classification, whether an import failed and what its caller got.
Returned(value) == [threw |-> FALSE, value |-> value]

NoOp ==
  [name |-> "new", before |-> Sizes(DEFAULT_ERROR_PATTERNS),
   message |-> << >>, index |-> 0, failed |-> FALSE,
   outcome |-> Returned(Undefined),
   exported |-> JsonText(JsonArray(<< >>)), imported |-> << >>]

Op(name) == [NoOp EXCEPT !.name = name, !.before = Sizes(errorPatterns)]

\* The list after a load that empties it down to the built-in rules before
\* the import is known to succeed.
LoadedInPlace(patterns, imported) ==
  IF imported.threw THEN DEFAULT_ERROR_PATTERNS
  ELSE imported.patterns \o DEFAULT_ERROR_PATTERNS

\* The list after a load that puts the imported rules ahead of the rules
\* the list holds.
LoadedOntoCurrent(patterns, imported) ==
  IF imported.threw THEN patterns
  ELSE imported.patterns \o patterns

\* The list after loadPatternsFromJSON: the assignment follows the import,
\* and the catch leaves the list alone.
Loaded(patterns, imported) ==
  IF imported.threw THEN patterns
  ELSE imported.patterns \o DEFAULT_ERROR_PATTERNS

\* What loadPatternsFromJSON gives its caller: the method is void and its
\* catch only warns on the console, so it returns undefined after an import
\* that threw as after one that did not.
LoadOutcome(imported) == Returned(Undefined)

loadPatternsFromJSON(json) ==
  /\ errorPatterns' = Loaded(errorPatterns, importPatternsFromJSON(json))
  /\ ruleOp' = [Op("load") EXCEPT
                  !.failed = importPatternsFromJSON(json).threw,
                  !.outcome = LoadOutcome(importPatternsFromJSON(json))]
  /\ UNCHANGED <<resolverVars, decoderVars, captureVars>>

\* A serializePattern that leaves the flags of the expression out.
serializePatternSourceOnly(pattern) ==
  [kind |-> "object", patternSource |-> pattern.pattern.source,
   patternFlags |-> "", errorType |-> pattern.errorType,
   possibleCauses |-> pattern.possibleCauses,
   suggestions |-> pattern.suggestions, severity |-> pattern.severity]

\* serializePattern(pattern): the source and the flags of the expression
\* and the other fields; the lastIndex of the expression is not written.
serializePattern(pattern) ==
  [kind |-> "object", patternSource |-> pattern.pattern.source,
   patternFlags |-> pattern.pattern.flags, errorType |-> pattern.errorType,
   possibleCauses |-> pattern.possibleCauses,
   suggestions |-> pattern.suggestions, severity |-> pattern.severity]

\* exportPatternsToJSON(patterns): the text of the array of the elements.
ExportedJSON(patterns) ==
  JsonText(JsonArray([i \in DOMAIN patterns |-> serializePattern(patterns[i])]))

\* LogAnalyzer.exportPatternsToJSON(): the list is only read.
exportPatternsToJSON ==
  /\ ruleOp' = [Op("export") EXCEPT !.exported = ExportedJSON(errorPatterns)]
  /\ UNCHANGED <<errorPatterns, resolverVars, decoderVars, captureVars>>

\* The caller hands the text it was given to importPatternsFromJSON.
importExported ==
  /\ ruleOp.name = "export"
  /\ ruleOp' = [Op("import") EXCEPT
                  !.exported = ruleOp.exported,
                  !.failed = importPatternsFromJSON(ruleOp.exported).threw,
                  !.imported = importPatternsFromJSON(ruleOp.exported).patterns]
  /\ UNCHANGED <<errorPatterns, resolverVars, decoderVars, captureVars>>

\* errorPatterns.unshift(pattern).
Unshifted(patterns, pattern) == <<pattern>> \o patterns

addErrorPattern(pattern) ==
  /\ Len(errorPatterns) < Len(DEFAULT_ERROR_PATTERNS) + MaxAdded
  /\ errorPatterns' = Unshifted(errorPatterns, pattern)
  /\ ruleOp' = Op("add")
  /\ UNCHANGED <<resolverVars, decoderVars, captureVars>>

removeErrorPattern(errorType) ==
  /\ errorPatterns' = SelectSeq(errorPatterns, LAMBDA p : p.errorType # errorType)
  /\ ruleOp' = Op("remove")
  /\ UNCHANGED <<resolverVars, decoderVars, captureVars>>

\* A reset that only drops what was put ahead of the built-in rules.
ResetKeepingRemovals(patterns) == SelectSeq(patterns, BuiltIn)

\* initErrorPatterns(): a copy of the built-in list.
Reset(patterns) == initErrorPatterns

resetErrorPatterns ==
  /\ errorPatterns' = Reset(errorPatterns)
  /\ ruleOp' = Op("reset")
  /\ UNCHANGED <<resolverVars, decoderVars, captureVars>>

\* The loop of matchErrorPattern from rule i on: each rule tested keeps
\* what test did to its expression; index 0 stands for undefined.
RECURSIVE MatchFrom(_, _, _)
MatchFrom(patterns, message, i) ==
  IF i > Len(patterns)
  THEN [index |-> 0, patterns |-> patterns]
  ELSE IF Test(patterns[i].pattern, message).result
       THEN [index |-> i,
             patterns |-> [patterns EXCEPT
                             ![i].pattern = Test(patterns[i].pattern, message).re]]
       ELSE MatchFrom([patterns EXCEPT
                         ![i].pattern = Test(patterns[i].pattern, message).re],
                      message, i + 1)

matchErrorPattern(message) ==
  /\ errorPatterns' = MatchFrom(errorPatterns, message, 1).patterns
  /\ ruleOp' = [Op("match") EXCEPT
                  !.message = message,
                  !.index = MatchFrom(errorPatterns, message, 1).index]
  /\ UNCHANGED <<resolverVars, decoderVars, captureVars>>

AnalyzerInit ==
  /\ errorPatterns = initErrorPatterns
  /\ ruleOp = NoOp

\* The rule list driven by its callers.
RulesNext ==
  \/ \E pattern \in UserPatterns : addErrorPattern(pattern)
  \/ \E errorType \in RemovedTypes : removeErrorPattern(errorType)
  \/ \E json \in JsonTexts : loadPatternsFromJSON(json)
  \/ resetErrorPatterns
  \/ \E message \in Messages : matchErrorPattern(message)
  \/ exportPatternsToJSON
  \/ importExported

\* ------------------------------------------------------------------------
\* Part IV: the interceptors
\* ------------------------------------------------------------------------

\* The most the stores are built to keep, and the calls that fill them.
MaxStored == 2

MaxFetches == 4

MaxCaptured == 4

\* Date.now() when the log under analysis was captured, and the time a
\* response takes.
LogTime == 5000

Elapsed == 50

\* undefined, for endTime and for status: both are tested for truth, which
\* 0 fails as undefined does.
NoTime == 0

NoStatus == 0

ApiUrl == "/api/users"

\* The request the fetch wrapper records when a call starts.
StartedRequest(id, url, time) ==
  [id |-> id, method |-> "GET", url |-> url, startTime |-> time,
   endTime |-> NoTime, status |-> NoStatus, requestStatus |-> "pending"]

\* What originalFetch does: it resolves with a response of a status, whose
\* body the wrapper reads or not by its content type, or it rejects, with
\* an AbortError or another error.
Responses ==
  {[kind |-> "response", status |-> st, read |-> rd, abort |-> FALSE] :
     st \in {200, 404}, rd \in BOOLEAN}
  \cup {[kind |-> "rejected", status |-> NoStatus, read |-> FALSE, abort |-> ab] :
          ab \in BOOLEAN}

\* response.ok.
Ok(status) == status >= 200 /\ status <= 299

\* The request as the wrapper leaves it when originalFetch settles.
SettledRequest(request, response, time) ==
  IF response.kind = "response"
  THEN [request EXCEPT
          !.endTime = time,
          !.status = response.status,
          !.requestStatus = IF Ok(response.status) THEN "success" ELSE "error"]
  ELSE [request EXCEPT
          !.endTime = time,
          !.requestStatus = IF response.abort THEN "aborted" ELSE "error"]

HasId(rs, id) == \E i \in DOMAIN rs : rs[i].id = id

\* requests.set(request.id, request): an id the Map holds keeps its place,
\* a new one goes last.
MapSet(rs, request) ==
  IF HasId(rs, request.id)
  THEN [i \in DOMAIN rs |-> IF rs[i].id = request.id THEN request ELSE rs[i]]
  ELSE Append(rs, request)

\* The wrapper changes the request object it handed to addRequest: the Map
\* holds that object as long as it holds the id.
Mutated(rs, request) == IF HasId(rs, request.id) THEN MapSet(rs, request) ELSE rs

\* keys.slice(0, keys.length - maxRequests): the keys addRequest deletes.
KeysToDelete(rs, max) ==
  IF Len(rs) > max THEN {rs[i].id : i \in 1..(Len(rs) - max)} ELSE {}

\* addRequest's Map afterwards.
AfterAdd(rs, request, max) ==
  SelectSeq(MapSet(rs, request),
            LAMBDA r : r.id \notin KeysToDelete(MapSet(rs, request), max))

\* updateRequest's Map afterwards.
AfterUpdate(rs, request) == MapSet(rs, request)

\* A call of the wrapper that is not under way.
IdleCall == [pc |-> "idle", request |-> StartedRequest(0, ApiUrl, NoTime)]

\* window.fetch(url): the wrapper records the request and awaits
\* originalFetch.
Fetch(url) ==
  /\ fetched < MaxFetches
  /\ fetched' = fetched + 1
  /\ requests' = AfterAdd(requests, StartedRequest(fetched + 1, url, LogTime),
                          maxRequests)
  /\ evicted' = evicted \cup
                  KeysToDelete(MapSet(requests,
                                      StartedRequest(fetched + 1, url, LogTime)),
                               maxRequests)
  /\ inflight' = [inflight EXCEPT
                    ![fetched + 1] =
                      [pc |-> "fetching",
                       request |-> StartedRequest(fetched + 1, url, LogTime)]]
  /\ UNCHANGED <<maxRequests, consoleVars, analysis, hookVars, resolverVars, decoderVars,
                 analyzerVars>>

\* originalFetch settles: the wrapper fills the request in and, unless it
\* has a body to read first, calls updateRequest and returns.
FetchSettle(id, response) ==
  /\ inflight[id].pc = "fetching"
  /\ IF response.read
     THEN /\ requests' = Mutated(requests,
                                 SettledRequest(inflight[id].request, response,
                                                LogTime + Elapsed))
          /\ inflight' = [inflight EXCEPT
                            ![id] =
                              [pc |-> "reading",
                               request |-> SettledRequest(inflight[id].request,
                                                          response,
                                                          LogTime + Elapsed)]]
     ELSE /\ requests' = AfterUpdate(requests,
                                     SettledRequest(inflight[id].request,
                                                    response, LogTime + Elapsed))
          /\ inflight' = [inflight EXCEPT ![id] = IdleCall]
  /\ UNCHANGED <<maxRequests, fetched, evicted, consoleVars, analysis, hookVars,
                 resolverVars, decoderVars, analyzerVars>>

\* The body is read: the wrapper calls updateRequest and returns.
FetchUpdate(id) ==
  /\ inflight[id].pc = "reading"
  /\ requests' = AfterUpdate(requests, inflight[id].request)
  /\ inflight' = [inflight EXCEPT ![id] = IdleCall]
  /\ UNCHANGED <<maxRequests, fetched, evicted, consoleVars, analysis, hookVars,
                 resolverVars, decoderVars, analyzerVars>>

\* NetworkInterceptor.clear().
clearRequests ==
  /\ requests' = << >>
  /\ UNCHANGED <<maxRequests, inflight, fetched, evicted, consoleVars, analysis, hookVars,
                 resolverVars, decoderVars, analyzerVars>>

NetworkStart(max) ==
  /\ requests = << >>
  /\ maxRequests = max
  /\ inflight = [id \in 1..MaxFetches |-> IdleCall]
  /\ fetched = 0
  /\ evicted = {}

NetworkNext ==
  \/ Fetch(ApiUrl)
  \/ \E id \in 1..MaxFetches, response \in Responses : FetchSettle(id, response)
  \/ \E id \in 1..MaxFetches : FetchUpdate(id)
  \/ clearRequests

\* ---- the console interceptor ---------------------------------------------

LogLevels == {"log", "info", "warn", "error", "debug"}

\* logs.slice(-maxLogs): the last maxLogs entries, and for -0, which is 0,
\* all of them.
SliceLast(entries, max) ==
  IF max = 0 \/ max >= Len(entries) THEN entries
  ELSE SubSeq(entries, Len(entries) - max + 1, Len(entries))

\* The logs after addLog pushed the entry.
Pushed(entries, max) ==
  IF Len(entries) > max THEN SliceLast(entries, max) ELSE entries

\* addLog(entry), for the entry captureLog made of a console call.
addLog(level) ==
  /\ captured < MaxCaptured
  /\ captured' = captured + 1
  /\ logs' = Pushed(Append(logs, [id |-> captured + 1, level |-> level]), maxLogs)
  /\ UNCHANGED <<maxLogs, networkVars, analysis, hookVars, resolverVars, decoderVars,
                 analyzerVars>>

\* ConsoleInterceptor.clear().
clearLogs ==
  /\ logs' = << >>
  /\ UNCHANGED <<maxLogs, captured, networkVars, analysis, hookVars, resolverVars,
                 decoderVars, analyzerVars>>

ConsoleStart(max) ==
  /\ logs = << >>
  /\ maxLogs = max
  /\ captured = 0

ConsoleNext ==
  \/ \E level \in {"error", "warn", "info"} : addLog(level)
  \/ clearLogs

\* ------------------------------------------------------------------------
\* Part V: installing and removing the capture, and Zyle's init/destroy
\* ------------------------------------------------------------------------

\* init() calls of one Zyle instance that are followed.
MaxInits == 3

\* The depth at which a function that keeps calling itself overflows the
\* stack.
MaxDepth == 3

\* A function installed as console[method]: the native one, or the wrapper
\* ConsoleInterceptor.start installs. originalMethods holds what start
\* saved for the method, "none" while the Map is empty.
Native == "native"

Wrapper == "wrapper"

NoCall ==
  [kind |-> "none", active |-> FALSE, initialized |-> FALSE, captures |-> 0,
   natives |-> 0, overflow |-> FALSE, panelAdded |-> 0, badge |-> 0,
   emitted |-> 0]

\* A call of the function installed as console[method]: the wrapper runs
\* captureLog and then the function originalMethods holds when it is
\* called, if any; the native function prints.
RECURSIVE CallConsole(_, _, _)
CallConsole(fn, saved, depth) ==
  IF fn = Native THEN [captures |-> 0, natives |-> 1, overflow |-> FALSE]
  ELSE IF depth = 0 THEN [captures |-> 0, natives |-> 0, overflow |-> TRUE]
  ELSE IF saved = "none"
  THEN [captures |-> 1, natives |-> 0, overflow |-> FALSE]
  ELSE [CallConsole(saved, saved, depth - 1) EXCEPT !.captures = @ + 1]

\* The logs after captureLog ran n times for one console call: addLog for
\* each.
RECURSIVE LogsAfter(_, _, _, _, _)
LogsAfter(entries, max, count, level, n) ==
  IF n = 0 THEN entries
  ELSE LogsAfter(Pushed(Append(entries, [id |-> count + 1, level |-> level]),
                        max),
                 max, count + 1, level, n - 1)

\* A start that does not look at isIntercepting.
NeverActive(flag) == FALSE

\* `if (this.isIntercepting) return` of start, `if (!this.isIntercepting)
\* return` of stop.
Active(flag) == flag

\* ConsoleInterceptor.start() on the fields given: the method is saved and
\* overridden.
ConsoleStarted(c) ==
  IF Active(c.isIntercepting) THEN c
  ELSE [c EXCEPT !.originalMethods = c.method, !.method = Wrapper,
                 !.isIntercepting = TRUE]

\* ConsoleInterceptor.stop(): the saved method is put back and the Map
\* cleared.
ConsoleStopped(c) ==
  IF ~Active(c.isIntercepting) THEN c
  ELSE [c EXCEPT !.method = IF c.originalMethods = "none" THEN c.method
                            ELSE c.originalMethods,
                 !.originalMethods = "none",
                 !.isIntercepting = FALSE]

\* window.fetch is the native fetch under a number of wrappers, each with
\* the originalFetch of its own closure: the function it was installed on.
\* fetchInterceptor is null (no originalFetch noted) or the interceptor of
\* the last start.
NoInterceptor == [installed |-> FALSE, originalFetch |-> 0]

\* NetworkInterceptor.start(): createFetchInterceptor and install().
NetworkStarted(n) ==
  IF Active(n.isIntercepting) THEN n
  ELSE [n EXCEPT !.fetchInterceptor =
                   [installed |-> TRUE, originalFetch |-> n.fetch],
                 !.fetch = n.fetch + 1,
                 !.isIntercepting = TRUE]

\* NetworkInterceptor.stop(): restore() and the interceptor dropped.
NetworkStopped(n) ==
  IF ~Active(n.isIntercepting) THEN n
  ELSE [n EXCEPT !.fetch = IF n.fetchInterceptor.installed
                           THEN n.fetchInterceptor.originalFetch
                           ELSE n.fetch,
                 !.fetchInterceptor = NoInterceptor,
                 !.isIntercepting = FALSE]

ConsoleFields ==
  [method |-> consoleMethod, originalMethods |-> originalMethods,
   isIntercepting |-> consoleIntercepting]

NetworkFields ==
  [fetch |-> windowFetch, fetchInterceptor |-> fetchInterceptor,
   isIntercepting |-> networkIntercepting]

SetConsole(c) ==
  /\ consoleMethod' = c.method
  /\ originalMethods' = c.originalMethods
  /\ consoleIntercepting' = c.isIntercepting

SetNetwork(n) ==
  /\ windowFetch' = n.fetch
  /\ fetchInterceptor' = n.fetchInterceptor
  /\ networkIntercepting' = n.isIntercepting

consoleStart ==
  /\ SetConsole(ConsoleStarted(ConsoleFields))
  /\ lastCall' = NoCall
  /\ UNCHANGED <<windowFetch, fetchInterceptor, networkIntercepting,
                 consoleListeners, networkListeners, isInitialized,
                 networkVars, consoleVars, analysis, resolverVars,
                 decoderVars, analyzerVars>>

consoleStop ==
  /\ SetConsole(ConsoleStopped(ConsoleFields))
  /\ lastCall' = NoCall
  /\ UNCHANGED <<windowFetch, fetchInterceptor, networkIntercepting,
                 consoleListeners, networkListeners, isInitialized,
                 networkVars, consoleVars, analysis, resolverVars,
                 decoderVars, analyzerVars>>

networkStart ==
  /\ SetNetwork(NetworkStarted(NetworkFields))
  /\ lastCall' = NoCall
  /\ UNCHANGED <<consoleMethod, originalMethods, consoleIntercepting,
                 consoleListeners, networkListeners, isInitialized,
                 networkVars, consoleVars, analysis, resolverVars,
                 decoderVars, analyzerVars>>

networkStop ==
  /\ SetNetwork(NetworkStopped(NetworkFields))
  /\ lastCall' = NoCall
  /\ UNCHANGED <<consoleMethod, originalMethods, consoleIntercepting,
                 consoleListeners, networkListeners, isInitialized,
                 networkVars, consoleVars, analysis, resolverVars,
                 decoderVars, analyzerVars>>

\* onLog / onRequest with a new closure: one more listener in the Set.
ListenerAdded(listeners) == listeners + 1

\* Zyle.init(): both interceptors are started and given a new listener,
\* the resolver is enabled as the options say (sourceMapSupport: true).
init ==
  /\ consoleListeners < MaxInits
  /\ IF isInitialized
     THEN UNCHANGED <<consoleMethod, originalMethods, consoleIntercepting,
                      windowFetch, fetchInterceptor, networkIntercepting,
                      consoleListeners, networkListeners, isInitialized,
                      isEnabled>>
     ELSE /\ SetConsole(ConsoleStarted(ConsoleFields))
          /\ consoleListeners' = ListenerAdded(consoleListeners)
          /\ SetNetwork(NetworkStarted(NetworkFields))
          /\ networkListeners' = ListenerAdded(networkListeners)
          /\ isEnabled' = TRUE
          /\ isInitialized' = TRUE
  /\ lastCall' = NoCall
  /\ UNCHANGED <<sourceMapCache, sourceMapUrls, cacheAccessOrder, destroyed,
                 nextId, tasks, started, recency, absent, batch,
                 networkVars, consoleVars, analysis, decoderVars,
                 analyzerVars>>

\* Zyle.destroy(): both interceptors are stopped and the resolver's cache
\* is cleared; the listeners of the interceptors are not touched.
destroy ==
  /\ IF ~isInitialized
     THEN UNCHANGED <<consoleMethod, originalMethods, consoleIntercepting,
                      windowFetch, fetchInterceptor, networkIntercepting,
                      isInitialized, sourceMapCache, sourceMapUrls,
                      cacheAccessOrder, destroyed, recency, absent>>
     ELSE /\ SetConsole(ConsoleStopped(ConsoleFields))
          /\ SetNetwork(NetworkStopped(NetworkFields))
          /\ destroyed' = destroyed \cup
               {sourceMapCache[k].id : k \in {x \in DOMAIN sourceMapCache :
                                                IsConsumer(sourceMapCache[x])}}
          /\ sourceMapCache' = EmptyMap
          /\ sourceMapUrls' = EmptyMap
          /\ cacheAccessOrder' = <<>>
          /\ recency' = <<>>
          /\ absent' = {}
          /\ isInitialized' = FALSE
  /\ lastCall' = NoCall
  /\ UNCHANGED <<consoleListeners, networkListeners, isEnabled, nextId, tasks,
                 started, batch, networkVars, consoleVars, analysis,
                 decoderVars, analyzerVars>>

\* The page calls console[level](...): what is installed runs; each run of
\* captureLog adds the log and calls every listener, and a listener of
\* Zyle runs handleLogCaptured: the panel's addLog, the badge's
\* incrementCount and the emission of 'log:captured'.
consoleCall(level) ==
  /\ captured < MaxCaptured
  /\ logs' = LogsAfter(logs, maxLogs, captured, level,
                       CallConsole(consoleMethod, originalMethods,
                                   MaxDepth).captures)
  /\ captured' = captured + CallConsole(consoleMethod, originalMethods,
                                        MaxDepth).captures
  /\ lastCall' =
       [kind |-> "console",
        active |-> consoleIntercepting,
        initialized |-> isInitialized,
        captures |-> CallConsole(consoleMethod, originalMethods,
                                 MaxDepth).captures,
        natives |-> CallConsole(consoleMethod, originalMethods,
                                MaxDepth).natives,
        overflow |-> CallConsole(consoleMethod, originalMethods,
                                 MaxDepth).overflow,
        panelAdded |-> consoleListeners
                         * CallConsole(consoleMethod, originalMethods,
                                       MaxDepth).captures,
        badge |-> consoleListeners
                    * CallConsole(consoleMethod, originalMethods,
                                  MaxDepth).captures,
        emitted |-> consoleListeners
                      * CallConsole(consoleMethod, originalMethods,
                                    MaxDepth).captures]
  /\ UNCHANGED <<maxLogs, consoleMethod, originalMethods, consoleIntercepting,
                 windowFetch, fetchInterceptor, networkIntercepting,
                 consoleListeners, networkListeners, isInitialized,
                 networkVars, analysis, resolverVars, decoderVars,
                 analyzerVars>>

\* The page calls window.fetch(url): every wrapper under way records the
\* request before its originalFetch runs, down to the native fetch.
fetchCall ==
  /\ lastCall' =
       [NoCall EXCEPT !.kind = "fetch",
                      !.active = networkIntercepting,
                      !.initialized = isInitialized,
                      !.captures = windowFetch,
                      !.natives = 1]
  /\ UNCHANGED <<consoleMethod, originalMethods, consoleIntercepting,
                 windowFetch, fetchInterceptor, networkIntercepting,
                 consoleListeners, networkListeners, isInitialized,
                 networkVars, consoleVars, analysis, resolverVars,
                 decoderVars, analyzerVars>>

HooksOff ==
  /\ consoleMethod = Native
  /\ originalMethods = "none"
  /\ consoleIntercepting = FALSE
  /\ consoleListeners = 0
  /\ windowFetch = 0
  /\ fetchInterceptor = NoInterceptor
  /\ networkIntercepting = FALSE
  /\ networkListeners = 0
  /\ isInitialized = FALSE
  /\ lastCall = NoCall

\* The interceptors started and stopped by their owner, and the page.
HooksNext ==
  \/ consoleStart
  \/ consoleStop
  \/ networkStart
  \/ networkStop
  \/ \E level \in {"error", "warn"} : consoleCall(level)
  \/ fetchCall

\* One Zyle instance initialized and destroyed, and the page.
ZyleNext ==
  \/ init
  \/ destroy
  \/ \E level \in {"error", "warn"} : consoleCall(level)
  \/ fetchCall

\* ------------------------------------------------------------------------
\* Part VI: analyze
\* ------------------------------------------------------------------------

TIME_WINDOW_MS == 2000

\* The calls of analyze followed.
MaxAnalyses == 1

Abs(x) == IF x < 0 THEN 0 - x ELSE x

\* request.endTime || request.startTime.
RequestTime(request) ==
  IF request.endTime # NoTime THEN request.endTime ELSE request.startTime

\* A window that leaves its edge out.
WithinWindowStrict(distance) == distance < TIME_WINDOW_MS

\* Math.abs(entry.timestamp - requestTime) <= timeWindow.
WithinWindow(distance) == distance <= TIME_WINDOW_MS

\* entry.message.includes(request.url), the url being one fragment.
Includes(message, url) == \E i \in DOMAIN message : message[i] = url

\* The test of findRelatedNetworkRequests on one request.
IsRelated(entry, request) ==
  /\ WithinWindow(Abs(entry.timestamp - RequestTime(request)))
  /\ \/ request.requestStatus = "error"
     \/ request.requestStatus = "timeout"
     \/ Includes(entry.message, request.url)
     \/ (request.status # NoStatus /\ request.status >= 400)

RECURSIVE Reverse(_)
Reverse(s) == IF s = << >> THEN << >> ELSE Append(Reverse(Tail(s)), Head(s))

\* The related requests, newest first.
RelatedNewestFirst(entry, window) ==
  Reverse(SelectSeq(window, LAMBDA request : IsRelated(entry, request)))

\* findRelatedNetworkRequests(entry) over what getRequests() returned: the
\* loop pushes each related request as it meets it.
findRelatedNetworkRequests(entry, window) ==
  SelectSeq(window, LAMBDA request : IsRelated(entry, request))

\* frame.original?.source as a condition: a frame with an original whose
\* source is a string that is not empty. A source is kept as the list of
\* its lines; no lines and one empty line are the empty string.
HasSource(frame) ==
  /\ "original" \in DOMAIN frame
  /\ frame.original.source # NoContent
  /\ frame.original.source # <<"">>

\* source.split('\n') of the lines joined with '\n'.
SplitLines(lines) == IF lines = << >> THEN <<"">> ELSE lines

NoContext ==
  [absent |-> TRUE, fileName |-> << >>, lineNumber |-> 0, columnNumber |-> 0,
   sourcePreview |-> << >>]

ContextAt(fileName, lineNumber, columnNumber, sourcePreview) ==
  [absent |-> FALSE, fileName |-> fileName, lineNumber |-> lineNumber,
   columnNumber |-> columnNumber, sourcePreview |-> sourcePreview]

\* The bare location of a frame.
BareContext(frame) ==
  ContextAt(frame.fileName, frame.lineNumber, frame.columnNumber, << >>)

\* The context of a frame that has a source.
SourceContext(frame) ==
  ContextAt(frame.original.fileName, frame.original.lineNumber,
            frame.original.columnNumber, SplitLines(frame.original.source))

\* A context taken from the first frame whatever the later ones carry.
FirstFrameContext(stackTrace) ==
  IF stackTrace = << >> THEN NoContext
  ELSE IF HasSource(stackTrace[1]) THEN SourceContext(stackTrace[1])
  ELSE BareContext(stackTrace[1])

\* extractCodeContext(stackTrace).
extractCodeContext(stackTrace) ==
  IF \E i \in DOMAIN stackTrace : HasSource(stackTrace[i])
  THEN SourceContext(
         stackTrace[First({i \in DOMAIN stackTrace : HasSource(stackTrace[i])})])
  ELSE IF stackTrace # << >> THEN BareContext(stackTrace[1])
  ELSE NoContext

\* The severity by the level alone.
SeverityOfLevel(entry, matched, related) ==
  IF entry.level = "error" THEN "medium" ELSE "low"

\* determineSeverity(entry, matchedPattern, relatedNetworkRequests): matched
\* is the empty list for undefined, else the list of the one rule.
determineSeverity(entry, matched, related) ==
  IF matched # << >> THEN matched[1].severity
  ELSE IF entry.level = "error"
  THEN IF \E i \in DOMAIN related : related[i].requestStatus = "error"
       THEN "high"
       ELSE "medium"
  ELSE "low"

\* The texts generateCausesAndSuggestions makes of a request.
RequestFailed(request) ==
  <<"Network request failed:", request.method, request.url>>

RequestTimedOut(request) == <<"Request timed out:", request.url>>

CheckAuthentication == Text("Check the authentication state")

CheckPermission == Text("Check the access permission")

CheckEndpoint(request) == <<"Check that the API endpoint exists:", request.url>>

CheckServer == Text("Check the server state")

CheckResponseTime == Text("Check the server response time")

\* The texts for a log no cause was found for.
UnexpectedError == Text("An unexpected error occurred")

CheckStackTrace == Text("Check the stack trace")

ValidateInput == Text("Validate the input data")

PotentialProblem == Text("A potential problem was detected")

ReviewWarning == Text("Review the warning message")

\* Suggestions by the outcome alone, whatever the status.
SuggestionsByOutcome(request) ==
  IF request.requestStatus = "timeout"
  THEN <<CheckResponseTime, CheckConnection>>
  ELSE << >>

CausesOfRequest(request) ==
  IF request.requestStatus = "error" THEN <<RequestFailed(request)>>
  ELSE IF request.requestStatus = "timeout" THEN <<RequestTimedOut(request)>>
  ELSE << >>

SuggestionsOfRequest(request) ==
  IF request.requestStatus = "error"
  THEN IF request.status = NoStatus THEN << >>
       ELSE IF request.status = 401 THEN <<CheckAuthentication>>
       ELSE IF request.status = 403 THEN <<CheckPermission>>
       ELSE IF request.status = 404 THEN <<CheckEndpoint(request)>>
       ELSE IF request.status >= 500 THEN <<CheckServer>>
       ELSE << >>
  ELSE IF request.requestStatus = "timeout"
  THEN <<CheckResponseTime, CheckConnection>>
  ELSE << >>

RECURSIVE ConcatAll(_)
ConcatAll(lists) ==
  IF lists = << >> THEN << >> ELSE Head(lists) \o ConcatAll(Tail(lists))

\* The causes before the defaults: the rule's, then each request's.
CausesFound(matched, related) ==
  (IF matched # << >> THEN matched[1].possibleCauses ELSE << >>)
  \o ConcatAll([i \in DOMAIN related |-> CausesOfRequest(related[i])])

SuggestionsFound(matched, related) ==
  (IF matched # << >> THEN matched[1].suggestions ELSE << >>)
  \o ConcatAll([i \in DOMAIN related |-> SuggestionsOfRequest(related[i])])

\* The defaults, pushed when no cause was found.
DefaultCauses(entry) ==
  IF entry.level = "error" THEN <<UnexpectedError>>
  ELSE IF entry.level = "warn" THEN <<PotentialProblem>>
  ELSE << >>

DefaultSuggestions(entry) ==
  IF entry.level = "error" THEN <<CheckStackTrace, ValidateInput>>
  ELSE IF entry.level = "warn" THEN <<ReviewWarning>>
  ELSE << >>

\* [...new Set(texts)] from text i on: the texts in the order of their
\* first occurrence.
RECURSIVE UniqueFrom(_, _, _)
UniqueFrom(texts, i, kept) ==
  IF i > Len(texts) THEN kept
  ELSE IF \E j \in DOMAIN kept : kept[j] = texts[i]
  THEN UniqueFrom(texts, i + 1, kept)
  ELSE UniqueFrom(texts, i + 1, Append(kept, texts[i]))

\* The texts as pushed.
AsPushed(texts) == texts

Unique(texts) == UniqueFrom(texts, 1, << >>)

\* generateCausesAndSuggestions(entry, matchedPattern, related): spreading
\* the possibleCauses or suggestions of a rule that has none throws.
generateCausesAndSuggestions(entry, matched, related) ==
  IF matched # << >>
     /\ (matched[1].possibleCauses = NotIterable
         \/ matched[1].suggestions = NotIterable)
  THEN [thrown |-> TRUE, possibleCauses |-> << >>, suggestions |-> << >>]
  ELSE [thrown |-> FALSE,
        possibleCauses |->
          Unique(CausesFound(matched, related)
                 \o (IF CausesFound(matched, related) = << >>
                     THEN DefaultCauses(entry) ELSE << >>)),
        suggestions |->
          Unique(SuggestionsFound(matched, related)
                 \o (IF CausesFound(matched, related) = << >>
                     THEN DefaultSuggestions(entry) ELSE << >>))]

\* matchedPattern: undefined or the rule at the place.
Matched(patterns, index) == IF index = 0 THEN << >> ELSE <<patterns[index]>>

NoEntry == [level |-> "log", message |-> << >>, timestamp |-> 0]

NoAnalysis ==
  [called |-> FALSE, calls |-> 0, thrown |-> FALSE, entry |-> NoEntry, stackTrace |-> << >>,
   matched |-> << >>, errorType |-> Undefined, possibleCauses |-> << >>,
   suggestions |-> << >>, relatedNetworkRequests |-> << >>,
   severity |-> "low", codeContext |-> NoContext]

\* What analyze returns for the stack resolveStackFrames resolved to, the
\* rule matched and the related requests.
AnalysisOf(entry, stackTrace, matched, related) ==
  [called |-> TRUE,
   calls |-> analysis.calls + 1,
   thrown |-> generateCausesAndSuggestions(entry, matched, related).thrown,
   entry |-> entry,
   stackTrace |-> stackTrace,
   matched |-> matched,
   errorType |-> IF matched # << >> THEN matched[1].errorType ELSE Undefined,
   possibleCauses |->
     generateCausesAndSuggestions(entry, matched, related).possibleCauses,
   suggestions |->
     generateCausesAndSuggestions(entry, matched, related).suggestions,
   relatedNetworkRequests |-> related,
   severity |-> determineSeverity(entry, matched, related),
   codeContext |-> extractCodeContext(stackTrace)]

\* analyze(entry) from the return of resolveStackFrames on: stackTrace is
\* the resolved stack. The rest of analyze runs without suspending.
analyze(entry, stackTrace) ==
  /\ analysis.calls < MaxAnalyses
  /\ errorPatterns' = MatchFrom(errorPatterns, entry.message, 1).patterns
  /\ ruleOp' = [Op("match") EXCEPT
                  !.message = entry.message,
                  !.index = MatchFrom(errorPatterns, entry.message, 1).index]
  /\ analysis' =
       AnalysisOf(entry, stackTrace,
                  Matched(errorPatterns,
                          MatchFrom(errorPatterns, entry.message, 1).index),
                  findRelatedNetworkRequests(entry, requests))
  /\ UNCHANGED <<networkVars, consoleVars, hookVars, resolverVars,
                 decoderVars>>

\* ---- the logs, stacks and windows analyze is tried on --------------------

AnalysisMessages ==
  { <<"[HTTP 404]">>, <<"timeout">>, <<"MyCustomError">>,
    <<"MyCustomError", ApiUrl>> }

LogEntries ==
  {[level |-> level, message |-> message, timestamp |-> LogTime] :
     level \in LogLevels, message \in AnalysisMessages}

\* A source map without sourcesContent: a frame resolves to a location
\* that carries no source text.
PlainMap ==
  [version |-> 3, sources |-> <<"s.ts">>, names |-> << >>,
   mappings |-> <<"A", "A", "A", "A", ",", "E", "A", "A", "E">>]

\* What resolveStackFrame returns for a frame whose file has the map.
ResolvedBy(frame, raw) == ResolveWith(frame, ConsumerFor(raw, 1)).value

Stacks ==
  { << >>,
    <<Frame(FileA)>>,
    <<Frame(FileA), ResolvedBy(Frame(FileC), PlainMap)>>,
    <<Frame(FileA), ResolvedBy(Frame(FileC), GoodMap)>>,
    <<ResolvedBy(Frame(FileA), PlainMap), ResolvedBy(Frame(FileC), GoodMap)>>,
    <<ResolvedBy(Frame(FileA), GoodMap), Frame(FileC)>> }

\* The times of the requests of a window: on both edges of the window
\* around the log, one millisecond outside them, and well inside.
RequestTimes ==
  { LogTime - TIME_WINDOW_MS - 1, LogTime - TIME_WINDOW_MS, LogTime + Elapsed,
    LogTime + TIME_WINDOW_MS, LogTime + TIME_WINDOW_MS + 1 }

Response(status) ==
  [kind |-> "response", status |-> status, read |-> FALSE, abort |-> FALSE]

Rejection(abort) ==
  [kind |-> "rejected", status |-> NoStatus, read |-> FALSE, abort |-> abort]

\* A request the wrapper left at that time: pending since then, or started
\* before the window and settled then.
RequestsAt(id, time) ==
  {StartedRequest(id, ApiUrl, time)}
  \cup {SettledRequest(StartedRequest(id, ApiUrl, LogTime - TIME_WINDOW_MS - 1),
                       outcome, time) :
          outcome \in {Response(st) : st \in {200, 401, 403, 404, 500}}
                      \cup {Rejection(FALSE), Rejection(TRUE)}}
  \cup {[StartedRequest(id, ApiUrl, LogTime - TIME_WINDOW_MS - 1) EXCEPT
           !.endTime = time, !.requestStatus = "timeout"]}

\* The windows: none, one request at any of the times, or two requests
\* each well inside or just outside, the second one earlier than the first.
Windows ==
  { << >> }
  \cup {<<r>> : r \in UNION {RequestsAt(1, time) : time \in RequestTimes}}
  \cup {<<r1, r2>> :
          r1 \in UNION {RequestsAt(1, time) :
                          time \in {LogTime + Elapsed,
                                    LogTime + TIME_WINDOW_MS + 1}},
          r2 \in UNION {RequestsAt(2, time) :
                          time \in {LogTime, LogTime + TIME_WINDOW_MS + 1}}}

\* The rule lists: the built-in one, and it with the two rules that match
\* "[HTTP 404]" removed.
RuleLists ==
  { DEFAULT_ERROR_PATTERNS,
    SelectSeq(DEFAULT_ERROR_PATTERNS,
              LAMBDA p : p.errorType \notin {"HTTP Client Error",
                                             "Not Found Error"}) }

AnalyzeInit ==
  /\ ResolverInit /\ VlqOff /\ MapOff
  /\ errorPatterns \in RuleLists
  /\ ruleOp = NoOp
  /\ requests \in Windows
  /\ maxRequests = MaxStored
  /\ inflight = [id \in 1..MaxFetches |-> IdleCall]
  /\ fetched = MaxStored
  /\ evicted = {}
  /\ ConsoleStart(MaxStored)
  /\ analysis = NoAnalysis
  /\ HooksOff

AnalyzeNext ==
  \E entry \in LogEntries, stackTrace \in Stacks : analyze(entry, stackTrace)

\* analyze on the built-in list after addErrorPattern calls of the user.
AnalyzeAddedInit ==
  /\ ResolverInit /\ VlqOff /\ MapOff /\ AnalyzerInit
  /\ requests \in Windows
  /\ maxRequests = MaxStored
  /\ inflight = [id \in 1..MaxFetches |-> IdleCall]
  /\ fetched = MaxStored
  /\ evicted = {}
  /\ ConsoleStart(MaxStored)
  /\ analysis = NoAnalysis
  /\ HooksOff

AnalyzeAddedNext ==
  \/ \E pattern \in {GlobalRule} : addErrorPattern(pattern)
  \/ \E entry \in LogEntries, stackTrace \in Stacks :
       analyze(entry, stackTrace)


CaptureInit ==
  /\ NetworkStart(MaxStored)
  /\ ConsoleStart(MaxStored)
  /\ analysis = NoAnalysis
  /\ HooksOff

\* The interceptors built with any maximum.
NetworkInit ==
  /\ ResolverInit /\ VlqOff /\ MapOff /\ AnalyzerInit
  /\ \E max \in 1..MaxStored : NetworkStart(max)
  /\ ConsoleStart(MaxStored)
  /\ analysis = NoAnalysis
  /\ HooksOff

ConsoleInit ==
  /\ ResolverInit /\ VlqOff /\ MapOff /\ AnalyzerInit
  /\ NetworkStart(MaxStored)
  /\ \E max \in 0..MaxStored : ConsoleStart(max)
  /\ analysis = NoAnalysis
  /\ HooksOff

vars == <<resolverVars, decoderVars, analyzerVars, captureVars>>

\* The batches resolveStackFrames is handed: up to MaxTasks frames.
Batches == SeqsUpTo(Frames, MaxTasks)

\* The resolver driven through resolveStackFrames, against a network that
\* may answer anything. One call is in flight at a time and the files are
\* fewer than the cache holds, so a located URL is never without its cache
\* entry when a call begins: the calls probe or hit.
BatchNext ==
  \/ \E frames \in Batches : resolveStackFrames(frames, MaxBatchStarts)
  \/ \E t \in Tasks, outcome \in HeadOutcomes : HeadResponse(t, outcome)
  \/ \E t \in Tasks, outcome \in BodyOutcomes : BodyResponse(t, outcome)
  \/ \E t \in Tasks, outcome \in LoadOutcomes : LoadResponse(t, outcome)
  \/ JoinAll
  \/ BatchReturn
  \/ \E enabled \in BOOLEAN : setEnabled(enabled)
  \/ clearCache

\* The resolver against a server whose maps embed sources of every length
\* up to MaxContentLines and map the frame to every line up to
\* MaxOriginalLine.
MaxContentLines == 9

MaxOriginalLine == 11

MaxPreviewStarts == 1

ContentLines == <<"l1", "l2", "l3", "l4", "l5", "l6", "l7", "l8", "l9">>

\* A source map whose one segment maps column 0 of line 1 to the given
\* 1-based line of s.ts, with the given sourcesContent.
MapToLine(line, contents) ==
  [version |-> 3, sources |-> <<"s.ts">>, names |-> <<>>,
   mappings |-> <<"A", "A">> \o encodeVLQ(line - 1) \o <<"A">>,
   sourcesContent |-> contents]

\* The same without sourcesContent.
BareMapToLine(line) ==
  [version |-> 3, sources |-> <<"s.ts">>, names |-> <<>>,
   mappings |-> <<"A", "A">> \o encodeVLQ(line - 1) \o <<"A">>]

PreviewMaps ==
  {MapToLine(line, <<SubSeq(ContentLines, 1, n)>>) :
     line \in 1..MaxOriginalLine, n \in 1..MaxContentLines}
  \cup {MapToLine(line, contents) :
          line \in 1..MaxOriginalLine, contents \in {<< >>, << <<"">> >>}}
  \cup {BareMapToLine(line) : line \in 1..MaxOriginalLine}

PreviewLoadOutcomes ==
  {[status |-> "ok", contentType |-> "application/json",
    doc |-> [kind |-> "json", value |-> m]] : m \in PreviewMaps}

PreviewNext ==
  \/ \E t \in Tasks : Start(t, Frame(FileA), MaxPreviewStarts)
  \/ \E t \in Tasks : HeadResponse(t, "ok")
  \/ \E t \in Tasks, outcome \in PreviewLoadOutcomes : LoadResponse(t, outcome)
  \/ \E t \in Tasks : Return(t)

Init == ResolverInit /\ VlqOff /\ MapOff /\ AnalyzerInit /\ CaptureInit

Spec == Init /\ [][Next]_vars

SpecCache == Init /\ [][CacheNext]_vars

SpecBatch == Init /\ [][BatchNext]_vars

VlqSpecInit ==
  ResolverInit /\ VlqInit /\ MapOff /\ AnalyzerInit /\ CaptureInit

VlqNext == Encode \/ Decode

SpecVLQ == VlqSpecInit /\ [][VlqNext]_vars

MapSpecInit ==
  ResolverInit /\ VlqOff /\ MapInit /\ AnalyzerInit /\ CaptureInit

MapNext ==
  \/ createSourceMapConsumer
  \/ \E line \in 1..MaxLines, column \in 0..MaxColumn : Lookup(line, column)

SpecLookup == MapSpecInit /\ [][MapNext]_vars

SpecPreview == Init /\ [][PreviewNext]_vars

SpecRules == Init /\ [][RulesNext]_vars

SpecNetwork == NetworkInit /\ [][NetworkNext]_vars

SpecConsole == ConsoleInit /\ [][ConsoleNext]_vars

SpecAnalyze == AnalyzeInit /\ [][AnalyzeNext]_vars

SpecAnalyzeAdded == AnalyzeAddedInit /\ [][AnalyzeAddedNext]_vars

SpecHooks == Init /\ [][HooksNext]_vars

SpecZyle == Init /\ [][ZyleNext]_vars

\* ------------------------------------------------------------------------
\* The properties
\* ------------------------------------------------------------------------

\* The step in which the resolution in slot t calls addToCache and settles.
Inserting(t) ==
  /\ tasks[t].pc \in {"found", "head1", "head2", "body", "loading"}
  /\ tasks'[t].pc = "done"

\* A clearCache step that changed something: no call moved and isEnabled
\* was not set.
Clearing ==
  /\ tasks' = tasks
  /\ isEnabled' = isEnabled
  /\ batch' = batch
  /\ resolverVars' # resolverVars

\* The keys a step removed from sourceMapCache.
Removed == DOMAIN sourceMapCache \ DOMAIN sourceMapCache'

\* C1: after any sequence of insertions, whatever the interleaving of the
\* resolveStackFrame calls that made them, sourceMapCache holds at most
\* MAX_CACHE_SIZE entries.
C1_CacheBounded == Cardinality(DOMAIN sourceMapCache) <= MAX_CACHE_SIZE

\* C2: whenever an insertion evicts an entry, the evicted key is the cached
\* key whose most recent access (insertion or cache hit) is the oldest.
C2_EvictsLeastRecentlyUsed ==
  [][\A t \in Tasks :
       Inserting(t) => \A k \in Removed : k = Head(recency)]_vars

\* C3: after two resolutions of the same file that both missed the cache
\* have completed, the cache and the access order are what one resolution
\* of that file leaves: the one entry, listed once.
C3_ConcurrentAsSingle ==
  \A t \in Tasks, u \in Tasks :
    ( /\ t # u
      /\ started = 2
      /\ tasks[t].pc = "done" /\ tasks[u].pc = "done"
      /\ tasks[t].lookup = "miss" /\ tasks[u].lookup = "miss"
      /\ tasks[t].frame.fileName = tasks[u].frame.fileName
      /\ tasks[t].frame.fileName \in DOMAIN sourceMapCache )
    => /\ DOMAIN sourceMapCache = {tasks[t].frame.fileName}
       /\ cacheAccessOrder = <<tasks[t].frame.fileName>>

\* C4: encoding an integer sequence with the base64 VLQ scheme and decoding
\* the text with decodeVLQ yields the sequence.
C4_RoundTrip == vlqPc = "decoded" => vlqOut = vlqInts

\* The places of the segments of the table on the line at or before the
\* column, and those of them with the largest generatedColumn.
Qualifying(mappings, line, column) ==
  {i \in DOMAIN mappings : Qualifies(mappings[i], line, column)}

Closest(mappings, line, column) ==
  {i \in Qualifying(mappings, line, column) :
     \A j \in Qualifying(mappings, line, column) :
       mappings[j].generatedColumn <= mappings[i].generatedColumn}

\* C5: originalPositionFor answers with the position of a segment that has
\* the largest generatedColumn among the segments of line - 1 whose
\* generatedColumn is at most the column (and with no position when no
\* segment qualifies).
C5_SelectsClosest ==
  mapPc = "looked" =>
    IF Qualifying(mapTable, mapPos.line, mapPos.column) = {}
    THEN mapResult = NullPosition
    ELSE \E i \in Closest(mapTable, mapPos.line, mapPos.column) :
           mapResult = PositionAt(mapRaw, mapTable, i)

\* C6: resolveStackFrame never raises: the promise of every call fulfils,
\* and a call whose resolution failed (nothing located, the payload not
\* obtained or rejected, the mappings not decodable, the lookup throwing)
\* returns the input frame, which has no `original`.
C6_NeverRaises ==
  \A t \in Tasks :
    /\ tasks[t].settled # "rejected"
    /\ tasks[t].pc = "done" =>
         /\ tasks[t].settled = "fulfilled"
         /\ tasks[t].failure # "none" =>
              /\ tasks[t].value = tasks[t].frame
              /\ "original" \notin DOMAIN tasks[t].value

\* A call has returned after originalPositionFor threw, and another after
\* its payload was not obtained.
C6_Witness ==
  \E t \in Tasks, u \in Tasks :
    /\ tasks[t].pc = "done" /\ tasks[t].failure = "lookup"
    /\ tasks[t].value = tasks[t].frame
    /\ tasks[u].pc = "done" /\ tasks[u].failure = "load"

\* C7: a call made for a file after a resolution of it concluded absent,
\* with no eviction of the entry and no clearCache since, returns its frame
\* unresolved from the cache, without a fetch.
C7_AbsentSticks ==
  \A t \in Tasks :
    tasks[t].wasAbsent =>
      /\ tasks[t].pc = "done"
      /\ tasks[t].lookup = "hit"
      /\ tasks[t].value = tasks[t].frame

\* The file URL with its extension replaced by ".map".
ReplaceExtension(fileUrl) == Front(fileUrl) \o <<".map">>

ProbeOrder(fileUrl) ==
  <<Request("HEAD", AppendMap(fileUrl)),
    Request("HEAD", ReplaceExtension(fileUrl)),
    Request("GET", fileUrl)>>

\* C8: on a miss the requests of findSourceMapUrl are, in this order, the
\* probe of the file URL with ".map" appended, the probe of the file URL
\* with its extension replaced by ".map", the fetch of the file itself.
C8_ProbeOrder ==
  \A t \in Tasks :
    tasks[t].pc \in {"head1", "head2", "body"} =>
      tasks[t].fetches =
        SubSeq(ProbeOrder(tasks[t].frame.fileName), 1, Len(tasks[t].fetches))

\* C9: every consumer that leaves the cache, by eviction or by clearCache,
\* has had destroy() called; clearCache leaves the cache, the located URLs
\* and the access order empty; and a call that finds the cache empty is a
\* miss.
C9_DestroyedOnRemoval ==
  [][ /\ \A k \in Removed :
           IsConsumer(sourceMapCache[k]) => sourceMapCache[k].id \in destroyed'
      /\ Clearing =>
           /\ sourceMapCache' = EmptyMap
           /\ sourceMapUrls' = EmptyMap
           /\ cacheAccessOrder' = <<>>
      /\ \A t \in Tasks :
           ( /\ tasks[t].pc = "idle" /\ tasks'[t].pc # "idle"
             /\ isEnabled
             /\ sourceMapCache = EmptyMap )
           => tasks'[t].lookup = "miss" ]_vars

\* Three files were resolved one after another with nothing cleared in
\* between (all three located URLs are still known), the first consumer was
\* evicted and destroyed, the other two are cached.
C9_Witness ==
  /\ started = 3
  /\ Cardinality(DOMAIN sourceMapUrls) = 3
  /\ Cardinality(DOMAIN sourceMapCache) = MAX_CACHE_SIZE
  /\ \A k \in DOMAIN sourceMapCache : IsConsumer(sourceMapCache[k])
  /\ destroyed = {1}

\* C10: an entry leaves the cache only in an insertion or in clearCache; an
\* insertion removes at most one entry, and removes none when the cache is
\* not full or the key is already present.
C10_RemovedOnlyPastCapacity ==
  [][ /\ Removed # {} => Clearing \/ \E t \in Tasks : Inserting(t)
      /\ \A t \in Tasks :
           Inserting(t) =>
             /\ Cardinality(Removed) <= 1
             /\ ( \/ Cardinality(DOMAIN sourceMapCache) < MAX_CACHE_SIZE
                  \/ tasks[t].frame.fileName \in DOMAIN sourceMapCache )
                => Removed = {} ]_vars

\* C11: the entry addToCache evicts is gone from the cache, no consumer
\* that was destroyed is ever a cache value, and a call for a key that is
\* not in the cache is a miss: it returns nothing from the cache and goes on
\* to locate (findSourceMapUrl) and load the mapping again.
C11_EvictedIsMiss ==
  [][ /\ \A t \in Tasks :
           ( /\ Inserting(t)
             /\ Cardinality(DOMAIN sourceMapCache) >= MAX_CACHE_SIZE
             /\ cacheAccessOrder # <<>>
             /\ Head(cacheAccessOrder) # tasks[t].frame.fileName )
           => Head(cacheAccessOrder) \notin DOMAIN sourceMapCache'
      /\ \A k \in DOMAIN sourceMapCache' :
           IsConsumer(sourceMapCache'[k])
             => sourceMapCache'[k].id \notin destroyed'
      /\ \A t \in Tasks, frame \in CacheFrames :
           ( /\ Start(t, frame, MaxCacheStarts)
             /\ isEnabled
             /\ frame.fileName \notin DOMAIN sourceMapCache )
           => /\ tasks'[t].lookup = "miss"
              /\ tasks'[t].pc \in {"found", "head1"}
              /\ tasks'[t].settled = "pending"
              /\ sourceMapCache' = sourceMapCache ]_vars

\* Three files were resolved with nothing cleared, the first consumer was
\* evicted, and a fourth call, for the evicted file, has missed the cache
\* and is about to load the mapping again.
C11_Witness ==
  /\ started = 4
  /\ Cardinality(DOMAIN sourceMapUrls) = 3
  /\ destroyed = {1}
  /\ \E t \in Tasks :
       /\ tasks[t].pc = "found"
       /\ tasks[t].lookup = "miss"
       /\ tasks[t].frame.fileName \notin DOMAIN sourceMapCache
       /\ tasks[t].frame.fileName \in DOMAIN sourceMapUrls

\* C12: a resolveStackFrame call made while the resolver is disabled
\* returns at once with the input frame (same coordinates, no `original`),
\* issues no fetch, and leaves the cache, the located URLs and the access
\* order as they were.
C12_DisabledIsIdentity ==
  [][\A t \in Tasks :
       (tasks[t].pc = "idle" /\ tasks'[t].pc # "idle" /\ ~isEnabled)
       => /\ tasks'[t].pc = "done"
          /\ tasks'[t].settled = "fulfilled"
          /\ tasks'[t].value = tasks'[t].frame
          /\ "original" \notin DOMAIN tasks'[t].value
          /\ tasks'[t].fetches = <<>>
          /\ tasks'[t].url = NoUrl
          /\ sourceMapCache' = sourceMapCache
          /\ sourceMapUrls' = sourceMapUrls
          /\ cacheAccessOrder' = cacheAccessOrder
          /\ destroyed' = destroyed]_vars

\* The resolver is disabled, and a call made while it was returned its
\* frame untouched although the cache holds a consumer for the file.
C12_Witness ==
  /\ ~isEnabled
  /\ \E t \in Tasks :
       /\ tasks[t].pc = "done"
       /\ tasks[t].lookup = "disabled"
       /\ tasks[t].value = tasks[t].frame
       /\ tasks[t].frame.fileName \in DOMAIN sourceMapCache
       /\ IsConsumer(sourceMapCache[tasks[t].frame.fileName])

\* What resolveStackFrame returns for a frame when loadSourceMap returned
\* raw, whatever else the resolver is doing.
ExpectedFrame(frame, raw) == ResolveWith(frame, ConsumerFor(raw, 1)).value

\* C13: resolveStackFrames has the calls for all its frames under way
\* before it suspends, the call for frame i in slot i; its promise never
\* rejects and fulfils with an array of the length of the input whose
\* element i is what the call for frame i returned, for every order in
\* which the calls complete; and the step in which one call gets its
\* answer, a failure included, changes no other call, the call's result
\* being decided by its own frame and its own answer.
C13_BatchOrderAndIndependence ==
  [][ /\ batch'.pc # "rejected"
      /\ batch'.pc = "pending" =>
           \A i \in 1..Len(batch'.frames) :
             tasks'[i].pc # "idle" /\ tasks'[i].frame = batch'.frames[i]
      /\ batch'.pc = "fulfilled" =>
           /\ Len(batch'.results) = Len(batch'.frames)
           /\ \A i \in 1..Len(batch'.frames) :
                /\ batch'.results[i] = tasks'[i].value
                /\ \A k \in DOMAIN batch'.frames[i] :
                     batch'.results[i][k] = batch'.frames[i][k]
      /\ \A t \in Tasks :
           (tasks[t].pc \notin {"idle", "done"} /\ tasks'[t] # tasks[t])
           => \A u \in Tasks \ {t} : tasks'[u] = tasks[u]
      /\ \A t \in Tasks :
           (tasks'[t].pc = "done" /\ tasks'[t].lookup = "miss")
           => tasks'[t].value = ExpectedFrame(tasks'[t].frame, tasks'[t].raw) ]_vars

\* resolveStackFrames of a frame of a.js and a frame of c.mjs has fulfilled:
\* the first resolution failed and its element is the input frame, the
\* second resolved and its element carries `original`.
C13_Witness ==
  /\ batch.pc = "fulfilled"
  /\ batch.frames = <<Frame(FileA), Frame(FileC)>>
  /\ tasks[1].failure # "none"
  /\ batch.results[1] = Frame(FileA)
  /\ "original" \in DOMAIN batch.results[2]
  /\ batch.results[2].fileName = FileC

\* C14: a call never changes the frame it was handed, and a frame returned
\* with `original` is a new frame: it has every field of the input with the
\* input's value (fileName, lineNumber, columnNumber, functionName, source)
\* and `original` besides, which the input frame does not have.
C14_InputNotMutated ==
  [][\A t \in Tasks :
       /\ (tasks[t].pc # "idle" /\ tasks'[t].pc # "idle")
            => tasks'[t].frame = tasks[t].frame
       /\ tasks'[t].pc = "done" =>
            /\ "original" \notin DOMAIN tasks'[t].frame
            /\ \/ tasks'[t].value = tasks'[t].frame
               \/ /\ DOMAIN tasks'[t].value
                       = DOMAIN tasks'[t].frame \cup {"original"}
                  /\ \A k \in DOMAIN tasks'[t].frame :
                       tasks'[t].value[k] = tasks'[t].frame[k]]_vars

\* A call has returned a frame with `original` whose functionName and
\* source are the input's, and the input frame is as it was handed over.
C14_Witness ==
  \E t \in Tasks :
    /\ tasks[t].pc = "done"
    /\ "original" \in DOMAIN tasks[t].value
    /\ tasks[t].value.functionName = "render"
    /\ tasks[t].value.source = "at render"
    /\ tasks[t].frame \in Frames

\* The answers loadSourceMap must not accept: a content-type that is
\* present and is not application/json, or a body that does not start
\* with "{".
Unacceptable ==
  {o \in LoadOutcomes :
     /\ o.status = "ok"
     /\ \/ o.contentType \notin {"", "application/json"}
        \/ o.doc.kind = "js"}

\* C15: when the fetched payload has a content-type other than
\* application/json or a body that does not start with "{", the call
\* fulfils with its input frame, the file is cached as absent, and nothing
\* is raised.
C15_PayloadValidated ==
  [][\A t \in Tasks :
       ( /\ tasks[t].pc = "loading"
         /\ \E o \in Unacceptable : LoadResponse(t, o) )
       => /\ tasks'[t].pc = "done"
          /\ tasks'[t].settled = "fulfilled"
          /\ tasks'[t].value = tasks[t].frame
          /\ tasks[t].frame.fileName \in DOMAIN sourceMapCache'
          /\ sourceMapCache'[tasks[t].frame.fileName] = Null]_vars

\* A call whose payload failed the validation has returned its frame
\* unresolved, and the file is cached as absent.
C15_Witness ==
  \E t \in Tasks :
    /\ tasks[t].pc = "done"
    /\ tasks[t].payload = "invalid"
    /\ tasks[t].value = tasks[t].frame
    /\ tasks[t].frame.fileName \in DOMAIN sourceMapCache
    /\ sourceMapCache[tasks[t].frame.fileName] = Null

RECURSIVE Sum(_)
Sum(s) == IF s = <<>> THEN 0 ELSE Head(s) + Sum(Tail(s))

\* The segments of a mappings string in table order, each with the index of
\* its semicolon-separated entry and its decoded fields; segments without
\* fields are left out.
RECURSIVE EntriesFrom(_, _)
EntriesFrom(lines, i) ==
  IF i > Len(lines) THEN <<>>
  ELSE [j \in 1..Len(Split(lines[i], ",")) |->
          [line |-> i - 1, d |-> decodeVLQ(Split(lines[i], ",")[j])]]
       \o EntriesFrom(lines, i + 1)

Entries(mappingsStr) ==
  SelectSeq(EntriesFrom(Split(mappingsStr, ";"), 1), LAMBDA e : e.d # <<>>)

\* The sum of field f over the entries 1..n that have at least `least`
\* fields and, with sameLine, lie on the line of entry n.
Total(E, n, f, least, sameLine) ==
  Sum([m \in 1..n |->
         IF Len(E[m].d) >= least /\ (sameLine => E[m].line = E[n].line)
         THEN E[m].d[f] ELSE 0])

\* C16: in the decoded table the generated column of a segment is the sum
\* of the column deltas of the segments of its own line up to it, its
\* sourceIndex, originalLine, originalColumn and nameIndex are the sums of
\* their deltas over all segments of the table up to it, and generatedLine
\* is the index of the semicolon-separated entry, empty entries counted.
C16_RunningTotals ==
  mapPc \in {"consumer", "looked"} =>
    /\ Len(mapTable) = Len(Entries(mapRaw.mappings))
    /\ \A n \in 1..Len(mapTable) :
         /\ mapTable[n].generatedLine = Entries(mapRaw.mappings)[n].line
         /\ mapTable[n].generatedColumn
              = Total(Entries(mapRaw.mappings), n, 1, 1, TRUE)
         /\ Len(Entries(mapRaw.mappings)[n].d) >= 4 =>
              /\ mapTable[n].sourceIndex
                   = Total(Entries(mapRaw.mappings), n, 2, 4, FALSE)
              /\ mapTable[n].originalLine
                   = Total(Entries(mapRaw.mappings), n, 3, 4, FALSE)
              /\ mapTable[n].originalColumn
                   = Total(Entries(mapRaw.mappings), n, 4, 4, FALSE)
         /\ Len(Entries(mapRaw.mappings)[n].d) >= 5 =>
              mapTable[n].nameIndex
                = Total(Entries(mapRaw.mappings), n, 5, 5, FALSE)

\* The table of "EACE;CAAC": the segment of the first line is at column 2,
\* the segment of the second line is back at column 1 while its original
\* line and column have run on from the first (1 and 3).
C16_Witness ==
  /\ mapPc = "consumer"
  /\ Len(mapTable) = 2
  /\ mapTable[1].generatedLine = 0 /\ mapTable[1].generatedColumn = 2
  /\ mapTable[1].originalColumn = 2
  /\ mapTable[2].generatedLine = 1 /\ mapTable[2].generatedColumn = 1
  /\ mapTable[2].originalColumn = 3 /\ mapTable[2].originalLine = 1

\* ---- the rule list ------------------------------------------------------

\* The pattern of the rule accepts the message: it matches somewhere in it.
Accepts(rule, message) == MatchesFrom(rule.pattern, message, 0) # {}

\* The place of the first rule of the list that accepts the message, 0 when
\* none does.
FirstAccepting(patterns, message) ==
  IF \E i \in DOMAIN patterns : Accepts(patterns[i], message)
  THEN First({i \in DOMAIN patterns : Accepts(patterns[i], message)})
  ELSE 0

\* C17: classification returns the first rule, in list order, whose pattern
\* accepts the message, and none exactly when no rule of the list accepts it.
C17_FirstAccepting ==
  ruleOp.name = "match" =>
    ruleOp.index = FirstAccepting(errorPatterns, ruleOp.message)

\* The rule is one addErrorPattern was called with, whatever test has done
\* to its expression since.
Added(rule) == [rule EXCEPT !.pattern.lastIndex = 0] \in UserPatterns

\* C18: a rule added with addErrorPattern is placed ahead of every rule
\* already in the list, which stays as it was behind it, so that a message
\* accepted by the added rule at the head of the list and by a built-in rule
\* is classified as the added rule.
C18_AddedRuleFirst ==
  /\ [][\A pattern \in UserPatterns :
          addErrorPattern(pattern) =>
            /\ errorPatterns'[1] = pattern
            /\ SubSeq(errorPatterns', 2, Len(errorPatterns')) = errorPatterns]_vars
  /\ [](( /\ ruleOp.name = "match"
          /\ errorPatterns # << >>
          /\ Added(errorPatterns[1])
          /\ Accepts(errorPatterns[1], ruleOp.message)
          /\ \E i \in DOMAIN errorPatterns :
               /\ BuiltIn(errorPatterns[i])
               /\ Accepts(errorPatterns[i], ruleOp.message) )
         => ruleOp.index = 1)

\* C19: after any sequence of addErrorPattern, removeErrorPattern and
\* loadPatternsFromJSON calls, resetErrorPatterns makes the rule list exactly
\* the built-in list: the same rules, the same count, the same order.
C19_ResetRestoresBuiltIns ==
  ruleOp.name = "reset" => errorPatterns = DEFAULT_ERROR_PATTERNS

\* A reset of a list that held an added rule and lacked a built-in one.
C19_Witness ==
  /\ ruleOp.name = "reset"
  /\ ruleOp.before.added > 0
  /\ ruleOp.before.count - ruleOp.before.added < Len(DEFAULT_ERROR_PATTERNS)

\* The texts whose import fails: JSON.parse, map or deserializePattern
\* throws.
FailingTexts == {json \in JsonTexts : importPatternsFromJSON(json).threw}

\* C20: a failed rule import (malformed JSON, or JSON with an element that
\* cannot be turned into a rule) leaves the rule list exactly as it was
\* before the call: the same rules in the same order.
C20_FailedImportKeepsList ==
  [][\A json \in FailingTexts :
       (ruleOp'.name = "load" /\ loadPatternsFromJSON(json))
         => errorPatterns' = errorPatterns]_vars

\* An import has failed on a list that was not the built-in one: it held an
\* added rule and lacked a built-in one.
C20_Witness ==
  /\ ruleOp.name = "load"
  /\ ruleOp.failed
  /\ ruleOp.before.added > 0
  /\ ruleOp.before.count - ruleOp.before.added < Len(DEFAULT_ERROR_PATTERNS)
  /\ Sizes(errorPatterns) = ruleOp.before

\* What the caller of loadPatternsFromJSON gets from an import that succeeds.
SuccessOutcome == LoadOutcome([threw |-> FALSE, patterns |-> << >>])

\* C21: a failed rule import is reported to the caller of
\* loadPatternsFromJSON as a failure the caller can tell from a successful
\* import: an error outcome or a failure value.
C21_FailureReported ==
  (ruleOp.name = "load" /\ ruleOp.failed) => ruleOp.outcome # SuccessOutcome

\* ---- the interceptors ----------------------------------------------------

\* C29: after any interleaving of request starts and request completions,
\* the completion of a request evicted while pending included, the network
\* interceptor stores at most maxRequests records, the evicted ones being
\* the oldest.
C29_RequestsBounded ==
  /\ Len(requests) <= maxRequests
  /\ \A id \in evicted : \A i \in DOMAIN requests : id < requests[i].id

\* C30: after any sequence of captured logs, the console interceptor stores
\* at most maxLogs entries, and they are the most recently captured ones in
\* capture order.
C30_LogsBounded ==
  /\ Len(logs) <= maxLogs
  /\ \A i \in DOMAIN logs : logs[i].id = captured - Len(logs) + i

\* ---- the correlator ------------------------------------------------------

\* The time the claim measures a record by, and its distance to the log.
RecordTime(record) ==
  IF record.endTime = NoTime THEN record.startTime ELSE record.endTime

Distance(log, record) ==
  IF log.timestamp >= RecordTime(record)
  THEN log.timestamp - RecordTime(record)
  ELSE RecordTime(record) - log.timestamp

Correlated(record) ==
  \E j \in DOMAIN analysis.relatedNetworkRequests :
    analysis.relatedNetworkRequests[j] = record

\* C22: analyze includes a record of the window if and only if the record
\* is at most 2000 ms from the log, by its endTime or else its startTime,
\* and its outcome is error or timeout, or its status is 400 or more, or
\* the message of the log contains its url; so a record exactly 2000 ms
\* away is included and one 2001 ms away is not.
C22_CorrelatedIffInWindow ==
  analysis.called =>
    \A i \in DOMAIN requests :
      Correlated(requests[i]) <=>
        /\ Distance(analysis.entry, requests[i]) <= 2000
        /\ \/ requests[i].requestStatus \in {"error", "timeout"}
           \/ requests[i].status >= 400
           \/ \E k \in DOMAIN analysis.entry.message :
                analysis.entry.message[k] = requests[i].url

\* A record exactly 2000 ms after the log was included.
C22_Witness ==
  /\ analysis.called
  /\ \E i \in DOMAIN requests :
       /\ Distance(analysis.entry, requests[i]) = 2000
       /\ requests[i].endTime > analysis.entry.timestamp
       /\ Correlated(requests[i])

\* ---- the severity --------------------------------------------------------

\* The rule the call of analyze matched is the one matchErrorPattern
\* reported: place 0 is no rule.
RuleMatched == ruleOp.index # 0

\* C23: the severity of an analysis result is the severity of the matched
\* rule when a rule matched; otherwise it is high for an error-level log
\* with a correlated record of outcome error, medium for any other
\* error-level log, and low for every other level.
C23_SeverityDerivation ==
  analysis.called =>
    /\ RuleMatched =>
         analysis.severity = errorPatterns[ruleOp.index].severity
    /\ (~RuleMatched /\ analysis.entry.level = "error") =>
         analysis.severity =
           IF \E i \in DOMAIN requests :
                Correlated(requests[i]) /\ requests[i].requestStatus = "error"
           THEN "high" ELSE "medium"
    /\ (~RuleMatched /\ analysis.entry.level # "error") =>
         analysis.severity = "low"

\* A warn-level log matched a rule of severity high, with no correlated
\* record: the severity is the rule's, not the level's.
C23_Witness ==
  /\ analysis.called
  /\ RuleMatched
  /\ analysis.entry.level = "warn"
  /\ analysis.relatedNetworkRequests = << >>
  /\ errorPatterns[ruleOp.index].severity = "high"
  /\ analysis.severity = "high"

\* ---- the generic diagnosis -----------------------------------------------

\* No frame of the analysed stack was resolved by a source map.
NothingResolved ==
  \A i \in DOMAIN analysis.stackTrace :
    "original" \notin DOMAIN analysis.stackTrace[i]

\* C24: for a log of any level that no rule matches and no mapping
\* resolves, analyze returns a result whose possibleCauses and suggestions
\* are not empty.
C24_GenericDiagnosis ==
  (analysis.called /\ ~RuleMatched /\ NothingResolved) =>
    /\ ~analysis.thrown
    /\ analysis.possibleCauses # << >>
    /\ analysis.suggestions # << >>

\* ---- the merge -----------------------------------------------------------

\* The place of the first occurrence of a text in a list, 0 for none.
FirstPlace(texts, text) ==
  IF \E i \in DOMAIN texts : texts[i] = text
  THEN First({i \in DOMAIN texts : texts[i] = text})
  ELSE 0

\* A list holds the texts of a merge once each, in the order of their
\* first occurrence in the merge.
FirstSeenOrder(list, merge) ==
  /\ \A i, j \in DOMAIN list : list[i] = list[j] => i = j
  /\ {list[i] : i \in DOMAIN list} = {merge[i] : i \in DOMAIN merge}
  /\ \A i, j \in DOMAIN list :
       i < j => FirstPlace(merge, list[i]) < FirstPlace(merge, list[j])

\* The merge of a result: the texts of the matched rule, then those of the
\* correlated records in the order of the window, then the defaults that
\* stand in when no cause was found.
MergedCauses ==
  CausesFound(analysis.matched, analysis.relatedNetworkRequests)
  \o (IF CausesFound(analysis.matched, analysis.relatedNetworkRequests) = << >>
      THEN DefaultCauses(analysis.entry) ELSE << >>)

MergedSuggestions ==
  SuggestionsFound(analysis.matched, analysis.relatedNetworkRequests)
  \o (IF CausesFound(analysis.matched, analysis.relatedNetworkRequests) = << >>
      THEN DefaultSuggestions(analysis.entry) ELSE << >>)

\* C25: possibleCauses and suggestions of an analysis result hold no two
\* equal texts, and their order is that of the first occurrence in the
\* merge, the texts of the matched rule first and then the texts of the
\* correlated records in the order of the window.
C25_DedupFirstSeen ==
  (analysis.called /\ ~analysis.thrown) =>
    /\ FirstSeenOrder(analysis.possibleCauses, MergedCauses)
    /\ FirstSeenOrder(analysis.suggestions, MergedSuggestions)

\* The matched rule and a correlated record gave the same suggestion, and
\* two correlated records gave the same cause: each appears once.
C25_Witness ==
  /\ analysis.called
  /\ RuleMatched
  /\ \E i \in DOMAIN analysis.matched[1].suggestions :
       \E j \in DOMAIN analysis.relatedNetworkRequests :
         \E k \in DOMAIN SuggestionsOfRequest(analysis.relatedNetworkRequests[j]) :
           analysis.matched[1].suggestions[i]
             = SuggestionsOfRequest(analysis.relatedNetworkRequests[j])[k]
  /\ Len(analysis.relatedNetworkRequests) = 2
  /\ CausesOfRequest(analysis.relatedNetworkRequests[1])
       = CausesOfRequest(analysis.relatedNetworkRequests[2])
  /\ Len(analysis.suggestions) < Len(MergedSuggestions)
  /\ Len(analysis.possibleCauses) < Len(MergedCauses)

\* ---- the 404 scenario ----------------------------------------------------

\* The records of the scenario: status 404, ended 50 ms after the log.
ScenarioRecords ==
  {i \in DOMAIN requests :
     /\ requests[i].status = 404
     /\ requests[i].endTime = analysis.entry.timestamp + 50}

\* An error-level log "[HTTP 404] ..." was analysed with such a record in
\* the window.
Scenario404 ==
  /\ analysis.called
  /\ analysis.entry.level = "error"
  /\ analysis.entry.message # << >>
  /\ analysis.entry.message[1] = "[HTTP 404]"
  /\ ScenarioRecords # {}

\* The severity of the scenario: the rule's, or high when no rule matched.
ScenarioSeverity ==
  analysis.severity =
    IF RuleMatched THEN errorPatterns[ruleOp.index].severity ELSE "high"

Holds(texts, text) == \E k \in DOMAIN texts : texts[k] = text

\* The texts about a 404 that analyze can produce for a record.
Texts404(record) ==
  { Text("The requested resource was not found (404)"),
    Text("The requested resource was not found"),
    CheckEndpoint(record) }

\* C26 as stated: in the scenario the record is correlated, the severity
\* is high or that of the matched rule, and possibleCauses includes a text
\* specific to 404.
C26_Causes404 ==
  Scenario404 =>
    \A i \in ScenarioRecords :
      /\ Correlated(requests[i])
      /\ ScenarioSeverity
      /\ \E text \in Texts404(requests[i]) :
           Holds(analysis.possibleCauses, text)

\* C26 as the code has it: in the scenario the record is correlated, the
\* severity is high or that of the matched rule, possibleCauses names the
\* failed request and suggestions holds the guidance specific to 404;
\* possibleCauses holds a text specific to 404 when the rule that matched
\* is HTTP Client Error, which supplies it.
C26_Guidance404 ==
  Scenario404 =>
    \A i \in ScenarioRecords :
      /\ Correlated(requests[i])
      /\ ScenarioSeverity
      /\ Holds(analysis.possibleCauses, RequestFailed(requests[i]))
      /\ Holds(analysis.suggestions, CheckEndpoint(requests[i]))
      /\ (RuleMatched /\ analysis.errorType = "HTTP Client Error") =>
           Holds(analysis.possibleCauses,
                 Text("The requested resource was not found (404)"))

\* The scenario with no rule matching the message: the severity is high,
\* the guidance is among the suggestions and no cause is specific to 404.
C26_Witness ==
  /\ Scenario404
  /\ ~RuleMatched
  /\ analysis.severity = "high"
  /\ \A i \in ScenarioRecords :
       /\ Holds(analysis.suggestions, CheckEndpoint(requests[i]))
       /\ \A text \in Texts404(requests[i]) :
            ~Holds(analysis.possibleCauses, text)

\* ---- the code context ----------------------------------------------------

\* The frames of the analysed stack that are resolved and carry source
\* text.
Carriers ==
  {i \in DOMAIN analysis.stackTrace :
     /\ "original" \in DOMAIN analysis.stackTrace[i]
     /\ analysis.stackTrace[i].original.source \notin {<< >>, <<"">>}}

\* C27: the code context of an analysis result is the original location
\* and the snippet lines of the first frame, in stack order, that is
\* resolved and carries source text; with no such frame it is the bare
\* location of the first frame with an empty preview; with an empty stack
\* it is absent.
C27_CodeContext ==
  analysis.called =>
    IF Carriers # {}
    THEN \E i \in Carriers :
           /\ \A j \in Carriers : i <= j
           /\ ~analysis.codeContext.absent
           /\ analysis.codeContext.fileName
                = analysis.stackTrace[i].original.fileName
           /\ analysis.codeContext.lineNumber
                = analysis.stackTrace[i].original.lineNumber
           /\ analysis.codeContext.columnNumber
                = analysis.stackTrace[i].original.columnNumber
           /\ analysis.codeContext.sourcePreview
                = analysis.stackTrace[i].original.source
    ELSE IF analysis.stackTrace # << >>
    THEN /\ ~analysis.codeContext.absent
         /\ analysis.codeContext.fileName = analysis.stackTrace[1].fileName
         /\ analysis.codeContext.lineNumber = analysis.stackTrace[1].lineNumber
         /\ analysis.codeContext.columnNumber
              = analysis.stackTrace[1].columnNumber
         /\ analysis.codeContext.sourcePreview = << >>
    ELSE analysis.codeContext.absent

\* The first frame is resolved without source text and the second carries
\* it: the context is the second frame's.
C27_Witness ==
  /\ analysis.called
  /\ Len(analysis.stackTrace) = 2
  /\ "original" \in DOMAIN analysis.stackTrace[1]
  /\ Carriers = {2}
  /\ analysis.codeContext.sourcePreview # << >>

\* ---- the order of the correlated records ---------------------------------

\* The place of a record in the window, by its id.
PlaceInWindow(record) ==
  First({i \in DOMAIN requests : requests[i].id = record.id})

\* C28: the correlated records are a subsequence of the window: each is a
\* record of the window, none appears twice, and they stand in the order
\* they have in the window.
C28_RelatedIsSubsequence ==
  analysis.called =>
    /\ \A j \in DOMAIN analysis.relatedNetworkRequests :
         \E i \in DOMAIN requests :
           requests[i] = analysis.relatedNetworkRequests[j]
    /\ \A j, k \in DOMAIN analysis.relatedNetworkRequests :
         j < k =>
           PlaceInWindow(analysis.relatedNetworkRequests[j])
             < PlaceInWindow(analysis.relatedNetworkRequests[k])

\* Both records of a window were correlated, the one that ended later
\* standing first in the window and in the result.
C28_Witness ==
  /\ analysis.called
  /\ Len(requests) = 2
  /\ analysis.relatedNetworkRequests = requests
  /\ RecordTime(requests[1]) > RecordTime(requests[2])

\* ---- the tables of the resolver ------------------------------------------

\* C35: in every reachable state, whatever the interleaving of the
\* resolutions, cacheAccessOrder lists exactly the keys of sourceMapCache,
\* each exactly once.
C35_OrderListsKeysOnce ==
  /\ {cacheAccessOrder[i] : i \in DOMAIN cacheAccessOrder}
       = DOMAIN sourceMapCache
  /\ \A i, j \in DOMAIN cacheAccessOrder :
       cacheAccessOrder[i] = cacheAccessOrder[j] => i = j

\* C36: every consumer the resolver created is the value stored in the
\* cache under its file key or has had destroy() called: none is replaced
\* in the cache by a later insertion without being destroyed.
C36_CachedOrDestroyed ==
  \A id \in 1..nextId :
    \/ id \in destroyed
    \/ \E k \in DOMAIN sourceMapCache :
         IsConsumer(sourceMapCache[k]) /\ sourceMapCache[k].id = id

\* No call of resolveStackFrame is in flight.
Quiescent == \A t \in Tasks : tasks[t].pc \in {"idle", "done"}

\* C39: after every completed resolution sourceMapUrls holds entries only
\* for files that are in sourceMapCache, so never more than MAX_CACHE_SIZE
\* of them.
C39_UrlsOnlyForCached ==
  Quiescent =>
    /\ DOMAIN sourceMapUrls \subseteq DOMAIN sourceMapCache
    /\ Cardinality(DOMAIN sourceMapUrls) <= MAX_CACHE_SIZE

\* ---- a located mapping that does not load --------------------------------

\* Call t has located a mapping URL and is loading the payload there.
Loading(t) == tasks[t].pc \in {"found", "loading"}

\* The step concluded call t with the payload at the located URL not
\* obtained or not accepted.
LoadFailed(t) ==
  /\ tasks[t].pc # "done"
  /\ tasks'[t].pc = "done"
  /\ tasks'[t].failure \in {"load", "decode"}

\* C38: once a mapping URL has been located for a file, the call goes on
\* to no other candidate location: it only loads the payload and returns;
\* and a failure to load or validate the payload caches the file as absent.
C38_NoFallbackAfterLocated ==
  [][\A t \in Tasks :
       /\ (Loading(t) /\ tasks'[t] # tasks[t]) =>
            /\ tasks'[t].pc \in {"loading", "done"}
            /\ tasks'[t].pc = "loading" => tasks[t].pc = "found"
       /\ LoadFailed(t) =>
            /\ tasks[t].frame.fileName \in DOMAIN sourceMapCache'
            /\ sourceMapCache'[tasks[t].frame.fileName] = Null
            /\ tasks'[t].value = tasks[t].frame]_vars

\* The first probe of a file located its mapping, the payload there was
\* not obtained, and the file is cached as absent with its URL kept.
C38_Witness ==
  \E t \in Tasks :
    /\ tasks[t].pc = "done"
    /\ tasks[t].failure = "load"
    /\ tasks[t].frame.fileName \in DOMAIN sourceMapUrls
    /\ sourceMapUrls[tasks[t].frame.fileName]
         = AppendMap(tasks[t].frame.fileName)
    /\ tasks[t].frame.fileName \in DOMAIN sourceMapCache
    /\ sourceMapCache[tasks[t].frame.fileName] = Null

\* ---- the snippet ---------------------------------------------------------

\* The embedded content of the source a call resolved its frame to: the
\* list of its lines, none when the map embeds no content for it.
ContentOf(task) ==
  IF "sourcesContent" \in DOMAIN task.raw /\ task.raw.sourcesContent # << >>
  THEN task.raw.sourcesContent[1]
  ELSE << >>

Max(a, b) == IF a > b THEN a ELSE b

Min(a, b) == IF a < b THEN a ELSE b

\* The lines of a content with 0-based indices from lo up to, not
\* including, hi.
LinesBetween(content, lo, hi) ==
  [i \in 1..Max(0, hi - lo) |-> content[lo + i]]

\* C34: the snippet of a frame resolved to line L of a source with
\* embedded content is the lines of the content with 0-based indices from
\* max(0, L-1-3) up to, not including, min(lineCount, L-1+4): at most 7
\* lines, with line L among them when L is within the content; a frame
\* resolved to a source without content is returned resolved, with no
\* snippet.
C34_SnippetWindow ==
  \A t \in Tasks :
    (tasks[t].pc = "done" /\ tasks[t].raw # NullRaw
       /\ tasks[t].failure = "none") =>
      /\ "original" \in DOMAIN tasks[t].value
      /\ IF ContentOf(tasks[t]) \in {<< >>, <<"">>}
         THEN tasks[t].value.original.source = << >>
         ELSE /\ tasks[t].value.original.source
                   = LinesBetween(
                       ContentOf(tasks[t]),
                       Max(0, tasks[t].value.original.lineNumber - 1 - 3),
                       Min(Len(ContentOf(tasks[t])),
                           tasks[t].value.original.lineNumber - 1 + 4))
              /\ Len(tasks[t].value.original.source) <= 7
              /\ tasks[t].value.original.lineNumber
                   <= Len(ContentOf(tasks[t])) =>
                   \E i \in DOMAIN tasks[t].value.original.source :
                     tasks[t].value.original.source[i]
                       = ContentOf(tasks[t])[
                           tasks[t].value.original.lineNumber]

\* A frame was resolved to line 5 of a source of 9 lines: the snippet is
\* its lines 2 to 8.
C34_Witness ==
  \E t \in Tasks :
    /\ tasks[t].pc = "done"
    /\ "original" \in DOMAIN tasks[t].value
    /\ tasks[t].value.original.lineNumber = 5
    /\ Len(ContentOf(tasks[t])) = 9
    /\ tasks[t].value.original.source
         = <<"l2", "l3", "l4", "l5", "l6", "l7", "l8">>

\* ---- the list after a load -----------------------------------------------

\* The rule is the one the element of the file describes.
RuleOfElement(rule, element) ==
  IF element.kind = "object"
  THEN /\ rule.pattern.source = element.patternSource
       /\ rule.pattern.flags = element.patternFlags
       /\ rule.errorType = element.errorType
       /\ rule.possibleCauses = element.possibleCauses
       /\ rule.suggestions = element.suggestions
       /\ rule.severity = element.severity
  ELSE rule.errorType = Undefined

\* The list is the rules of the elements, in their order, and then the
\* built-in rules in theirs.
ImportedThenBuiltIn(patterns, elements) ==
  /\ Len(patterns) = Len(elements) + Len(DEFAULT_ERROR_PATTERNS)
  /\ \A i \in DOMAIN elements : RuleOfElement(patterns[i], elements[i])
  /\ \A i \in DOMAIN DEFAULT_ERROR_PATTERNS :
       patterns[Len(elements) + i] = DEFAULT_ERROR_PATTERNS[i]

\* C40: after a successful loadPatternsFromJSON the rule list is the
\* imported rules in the order of the file followed by the built-in rules
\* in the built-in order, whatever had been added or removed before.
C40_LoadReplacesList ==
  (ruleOp.name = "load" /\ ~ruleOp.failed) =>
    \E json \in JsonTexts :
      /\ json.wellFormed
      /\ json.value.kind = "array"
      /\ ImportedThenBuiltIn(errorPatterns, json.value.elements)

\* A file of one rule was loaded into a list that held an added rule and
\* lacked a built-in one.
C40_Witness ==
  /\ ruleOp.name = "load"
  /\ ~ruleOp.failed
  /\ ruleOp.before.added > 0
  /\ ruleOp.before.count - ruleOp.before.added < Len(DEFAULT_ERROR_PATTERNS)
  /\ Len(errorPatterns) = Len(DEFAULT_ERROR_PATTERNS) + 1
  /\ errorPatterns[1].errorType = "Imported Error"

\* ---- export and import ---------------------------------------------------

\* The two rules agree in what a file keeps of a rule.
SameRule(a, b) ==
  /\ a.pattern.source = b.pattern.source
  /\ a.pattern.flags = b.pattern.flags
  /\ a.errorType = b.errorType
  /\ a.possibleCauses = b.possibleCauses
  /\ a.suggestions = b.suggestions
  /\ a.severity = b.severity

\* C31: exporting a rule list to JSON and importing that JSON yields a
\* list of the same length and order in which every rule has the pattern
\* source and flags, the errorType, the possibleCauses, the suggestions
\* and the severity of the exported one.
C31_ExportImportRoundTrip ==
  ruleOp.name = "import" =>
    /\ ~ruleOp.failed
    /\ Len(ruleOp.imported) = Len(errorPatterns)
    /\ \A i \in DOMAIN errorPatterns :
         SameRule(ruleOp.imported[i], errorPatterns[i])

\* A list of two added rules ahead of built-in ones went through a file,
\* the first of them a global expression that had matched a message.
C31_Witness ==
  /\ ruleOp.name = "import"
  /\ Len(ruleOp.imported) > 2
  /\ ~BuiltIn(errorPatterns[1])
  /\ ~BuiltIn(errorPatterns[2])
  /\ errorPatterns[1].pattern.flags = "gi"
  /\ errorPatterns[1].pattern.lastIndex > 0
  /\ ruleOp.imported[1].pattern.flags = "gi"

\* ---- installing and removing the capture ---------------------------------

\* An inactive interceptor has nothing installed and nothing saved, an
\* active one wraps the primitive once.
InstalledAsPair ==
  /\ consoleIntercepting
       => consoleMethod = Wrapper /\ originalMethods = Native
  /\ ~consoleIntercepting
       => consoleMethod = Native /\ originalMethods = "none"
  /\ networkIntercepting
       => windowFetch = 1 /\ fetchInterceptor = [installed |-> TRUE,
                                                 originalFetch |-> 0]
  /\ ~networkIntercepting
       => windowFetch = 0 /\ fetchInterceptor = NoInterceptor

\* A call reaches the original primitive once, and is captured once by an
\* active interceptor and not at all by an inactive one.
CapturedWhileActive ==
  lastCall.kind # "none"
    => /\ lastCall.natives = 1
       /\ ~lastCall.overflow
       /\ lastCall.captures = (IF lastCall.active THEN 1 ELSE 0)

\* A step that leaves an interceptor active, or leaves it inactive, leaves
\* what it installed and saved alone.
StartStopIdempotent ==
  /\ consoleIntercepting' = consoleIntercepting
       => UNCHANGED <<consoleMethod, originalMethods>>
  /\ networkIntercepting' = networkIntercepting
       => UNCHANGED <<windowFetch, fetchInterceptor>>

C37_HandledOnce ==
  (lastCall.kind = "console" /\ lastCall.initialized
     /\ lastCall.captures = 1)
    => /\ lastCall.panelAdded = 1
       /\ lastCall.badge = 1
       /\ lastCall.emitted = 1

\* ---- analyze and what it is given ----------------------------------------

\* C33: analyze treats its inputs as read-only: a call leaves the log
\* entry, the records of the window, the window's content and order, and
\* the rule list as they were; the resolved stack is only in the result.
C33_InputsReadOnly ==
  [][analysis'.calls > analysis.calls
       => /\ requests' = requests
          /\ logs' = logs
          /\ errorPatterns' = errorPatterns]_vars

====
